---------------------------- MODULE Spec2Model ----------------------------
(***************************************************************************)
(* A model of the backup engine of local-drive: the sync engine            *)
(* (backup/sync/engine.py), the garbage collector (backup/gc.py), the blob *)
(* store operations they call (backup/storage.py), the path builder        *)
(* (backup/sync/path_builder.py), the provider's change iteration          *)
(* (backup/providers/google_drive.py) and the task dispatchers             *)
(* (backup/tasks.py).                                                      *)
(*                                                                         *)
(* One account with one SyncRoot is synced by one SyncEngine at a time,    *)
(* with a GarbageCollector beside it.  Spec is the deletion state machine, *)
(* CursorSpec the cursor protocol, BlobSpec the blob store under sync and  *)
(* GC, GcSpec the collector between syncs, DispatchSpec the dispatchers    *)
(* and the workers that run sync_account_task.  ScopeSpec is the collector *)
(* over two accounts, WriteSpec write_blob with two callers, ArchiveSpec   *)
(* the trees current/ and archive/, PathSpec the paths of the BackupItems  *)
(* over several runs, NameSpec the sanitizing of provider names, ReadSpec  *)
(* the verifying reader of the blob store, SiblingSpec the resolution of   *)
(* path conflicts in one folder, SecretSpec set_tokens of                  *)
(* backup/secrets.py for two accounts at once.                             *)
(***************************************************************************)
EXTENDS Integers, Sequences, FiniteSets, Bags, TLC

(***************************************************************************)
(* Bounds of the model.                                                    *)
(***************************************************************************)
\* The clock stops here: no sync starts and no time passes afterwards.
MaxTime == 6
\* Page tokens are 1..MaxToken; 0 is the empty cursor "".
MaxToken == 2
\* Changes in one run of the engine, at most.
MaxChanges == 2
\* Retention of the account, in clock ticks and versions.
KeepDays == 0
KeepLastN == 1

\* Provider item ids: "A" is a regular file, "D" is a folder.
ItemIds == {"A", "D"}
FolderIds == {"D"}
\* Content digests a download can produce.
Digests == {"d1", "d2"}
\* Revisions of a provider file: the (etag, modifiedTime) pair of a record.
Revs == {1, 2}
None == "none"

\* The accounts of the collector's scope, and what each may hold.
GcAccounts == {"a1", "a2"}
MaxAccountVersions == 2
ScopeTime == 2

\* The callers of write_blob, the chunks of their data and the contents
\* they write: every content has ChunkCount chunks.
Writers == {"w1", "w2"}
Chunks == {"x", "y"}
ChunkCount == 2
WriteContents == {c \in [1..ChunkCount -> Chunks] : c[1] = "x"}

\* hashlib.sha256 over the chunks hashed so far: a different value for
\* every sequence of chunks, the empty one and the partial ones included.
RECURSIVE Sha256(_)
Sha256(bytes) ==
    IF bytes = <<>> THEN 1
    ELSE 2 * Sha256(SubSeq(bytes, 1, Len(bytes) - 1))
         + (IF bytes[Len(bytes)] = "y" THEN 1 ELSE 0)

\* The digests a canonical path can be named after.
DigestSpace == 1..(2 * Sha256([k \in 1..ChunkCount |-> "y"]))

\* The callers of set_tokens, the key of the account of each, and the
\* tokens they store.
Setters == {"s1", "s2"}
SecretKeys == {"google:s1", "google:s2"}
Tokens == {"t1", "t2"}

\* The items with one name that are registered in one folder, at most.
MaxSiblings == 1002

\* The contents a blob file can have when it is read: up to ReadLen chunks.
ReadLen == 2
ReadContents == UNION {[1..n -> Chunks] : n \in 0..ReadLen}
\* The size arguments of read: -1 is "to the end".
ReadSizes == {-1, 0, 1, 2}

\* The provider ids of the SyncRoot whose paths are built: the folder P
\* and the files X and Y.  A path is a sequence of components.
PathIds == {"P", "X", "Y"}
NoPath == <<>>
\* Runs of the engine that builds paths, and changes in one run.
PathRuns == 2
PathRunChanges == 3
\* The number of counters _resolve_conflicts tries.
ConflictCap == 1000

\* The characters of provider file names: a letter, the dot, the space,
\* the path separator and one character of INVALID_CHARS; the length of
\* the names.
NameChars == {"a", ".", " ", "/", "<"}
InvalidChars == {"<", ">", ":", "\"", "|", "?", "*", "NUL"}
MaxNameLen == 3
\* The longest sanitized name and the longest extension it keeps.
NameLimit == 255
ExtensionLimit == 10
Unnamed == <<"u", "n", "n", "a", "m", "e", "d">>

\* The relative paths of files under current/ and archive/, the
\* directories above them, and the contents of the files.
FilePaths == {<<"d">>, <<"d", "f">>, <<"d", "g">>}
DirPaths == {<<"d">>}
FileContents == {"c1", "c2"}

\* Files of the store: a path without a file, and a file with its bytes.
NoFile == [exists |-> FALSE, bytes |-> <<>>]
File(bytes) == [exists |-> TRUE, bytes |-> bytes]

(***************************************************************************)
(* State.                                                                  *)
(***************************************************************************)
VARIABLES
    item,        \* catalog: BackupItem rows of the SyncRoot, by provider id
    versions,    \* catalog: FileVersion rows of each item, in capture order
    blobRow,     \* catalog: digests that have a BackupBlob row
    blobFile,    \* storage: digests that have a file under blobs/
    current,     \* storage: the file of each item's path under current/
    archive,     \* storage: the file of each item's path under archive/
    syncCursor,  \* SyncRoot.sync_cursor (0 is "")
    lastSyncAt,  \* SyncRoot.last_sync_at (0 is NULL)
    session,     \* the SyncSession row of the latest run_sync
    eng,         \* the running SyncEngine: its position and its locals
    gc,          \* the running GarbageCollector: its position and its locals
    clock,       \* timezone.now()
    lastOp,      \* history: the operation the last step performed
    hist,        \* history: per item, what the runs since its last change saw
    queue,       \* dispatch: sync_account_task messages in the broker
    worker,      \* dispatch: what each Celery worker is executing
    running,     \* dispatch: RUNNING SyncSession rows per SyncRoot
    nextSyncAt,  \* dispatch: Account.next_sync_at
    rowLock,     \* dispatch: Account rows locked by a dispatcher transaction
    disp,        \* dispatch: each sync_due_accounts run and its claimed rows
    acct,        \* accounts: the catalog and the store of each of two accounts
    blobOwner,   \* accounts: BackupBlob.account of each digest's row
    writer,      \* store: each write_blob call, its position and its locals
    tmpFile,     \* store: the content of each call's file under tmp/
    blobPath,    \* store: the content at each canonical path under blobs/
    tree,        \* store: the files and directories of current/ and archive/
    trip,        \* history: the move to archive/ that the last call undid
    pathItem,    \* paths: BackupItem.path of each provider id of a SyncRoot
    pathCache,   \* paths: PathBuilder._path_cache of the running engine
    pathEng,     \* paths: the run of the engine and the changes it has left
    pathOp,      \* history: the change the last step processed
    fileName,    \* names: DriveFile.name of a file at the root of the drive
    safeName,    \* names: the path build_path returned for it (<<>>: not yet)
    reader,      \* store: a VerifyingReader, the file it wraps and its fields
    siblings,    \* paths: the paths of the items of one folder, in order
    secretsFile, \* secrets: the file at SECRETS_FILE
    setter,      \* secrets: each set_tokens call, its position and its locals
    seen         \* secrets: what the last _load_secrets of a reader returned

coreVars == <<item, versions, blobRow, blobFile, current, archive, syncCursor,
              lastSyncAt, session, eng, gc, clock, lastOp, hist>>
dispVars == <<queue, worker, running, nextSyncAt, rowLock, disp>>
scopeVars == <<acct, blobOwner>>
writeVars == <<writer, tmpFile, blobPath>>
treeVars == <<tree, trip>>
pathVars == <<pathItem, pathCache, pathEng, pathOp>>
nameVars == <<fileName, safeName>>
readVars == <<reader>>
siblingVars == <<siblings>>
secretVars == <<secretsFile, setter, seen>>
extVars == <<scopeVars, writeVars, treeVars, pathVars, nameVars, readVars,
             siblingVars, secretVars>>
\* What the actions of one part of the model leave alone of the others.
extButScope == <<writeVars, treeVars, pathVars, nameVars, readVars,
                 siblingVars, secretVars>>
extButWrite == <<scopeVars, treeVars, pathVars, nameVars, readVars,
                 siblingVars, secretVars>>
extButTree == <<scopeVars, writeVars, pathVars, nameVars, readVars,
                siblingVars, secretVars>>
extButPath == <<scopeVars, writeVars, treeVars, nameVars, readVars,
                siblingVars, secretVars>>
extButName == <<scopeVars, writeVars, treeVars, pathVars, readVars,
                siblingVars, secretVars>>
extButRead == <<scopeVars, writeVars, treeVars, pathVars, nameVars,
                siblingVars, secretVars>>
extButSibling == <<scopeVars, writeVars, treeVars, pathVars, nameVars,
                   readVars, secretVars>>
extButSecret == <<scopeVars, writeVars, treeVars, pathVars, nameVars,
                  readVars, siblingVars>>
vars == <<coreVars, dispVars, extVars>>

(***************************************************************************)
(* Catalog and storage helpers.                                            *)
(***************************************************************************)
\* The absent BackupItem row.
NoItem == [exists |-> FALSE, state |-> "active", count |-> 0, lastSeen |-> 0,
           rev |-> 0, changedAt |-> 0]

\* The absent SyncSession row.
NoSession == [status |-> "none", initial |-> FALSE, startCursor |-> 0,
              endCursor |-> 0, errors |-> 0, filesDeleted |-> 0,
              errorMessage |-> None]

IdleEngine == [pc |-> "idle", start |-> 0, initial |-> FALSE, startTok |-> 0,
               pageTok |-> 0, curTok |-> 0, cont |-> FALSE, nextTok |-> 0,
               left |-> 0, inBatch |-> 0, deleted |-> 0]

IdleGc == [pc |-> "idle", dry |-> FALSE, orphans |-> {}, purged |-> 0,
           blobs |-> 0]

\* History: the operation of the last step (its kind, the provider id it
\* was about, how it ended and whether its transaction committed), and per
\* item: touched, whether the running sync held a change for it; sweeps,
\* the sweeps that found it unseen since a change for it was last applied;
\* streak, the successful incremental syncs in a row, up to now, that held
\* no change for it while it was ACTIVE or MISSING_UPSTREAM.
NoChange == [c |-> [id |-> None, kind |-> None, rev |-> 0], d |-> None,
             mv |-> FALSE]

NoOp == [kind |-> "none", id |-> None, out |-> None, done |-> FALSE,
         chg |-> NoChange]

NoHist == [touched |-> FALSE, sweeps |-> 0, streak |-> 0]

Op(kind, id, out, done) ==
    [kind |-> kind, id |-> id, out |-> out, done |-> done, chg |-> NoChange]

\* The step that processed change c, whose download returned digest d; mv
\* is whether its move to archive/ succeeded.
ChangeOp(kind, c, d, mv, out, done) ==
    [kind |-> kind, id |-> c.id, out |-> out, done |-> done,
     chg |-> [c |-> c, d |-> d, mv |-> mv]]

\* The change is a folder: its mimeType is application/vnd.google-apps.folder.
IsFolder(id) == id \in FolderIds

\* The blob of the oldest version instead.
OldestBlob(vs) == vs[1].blob

\* item.versions.latest("captured_at").blob
LatestBlob(vs) == vs[Len(vs)].blob

\* A change is a deletion when removed or when its file is trashed.
IsDeletion(c) == c.kind = "removed" \/ c.kind = "trashed"

\* The changes an initial sync keeps of a page: those not removed.
KeptByInitial(c) == c.kind # "removed"

\* A deletion that wrote no tombstone.
WithoutPreDelete(id) == versions[id]

\* The versions of an item after the PRE_DELETE step of a deletion or of a
\* quarantine: a FILE with content gets a tombstone on its latest blob.
WithPreDelete(id) ==
    IF ~IsFolder(id) /\ Len(versions[id]) > 0
    THEN Append(versions[id], [blob |-> LatestBlob(versions[id]),
                               reason |-> "pre_delete", at |-> clock])
    ELSE versions[id]

\* storage.move_to_archive for the paths of the items in ids: a file in
\* current/ replaces what archive/ holds and leaves current/.
ArchiveAfterMove(ids) ==
    [i \in ItemIds |-> IF i \in ids /\ current[i] # None THEN current[i]
                       ELSE archive[i]]
CurrentAfterMove(ids) ==
    [i \in ItemIds |-> IF i \in ids /\ current[i] # None THEN None
                       ELSE current[i]]

\* The FILE items among ids: only their paths are moved to archive/.
FilesOf(ids) == {i \in ids : ~IsFolder(i)}

(***************************************************************************)
(* SyncEngine.run_sync: the start of a run.                                *)
(***************************************************************************)
\* is_initial = not sync_cursor or not last_sync_at
IsInitial(cursor, last) == cursor = 0 \/ last = 0

\* sync_account_task with force_initial: the cursor is cleared before the
\* engine is built.
ForceInitial ==
    /\ eng.pc = "idle"
    /\ syncCursor # 0
    /\ syncCursor' = 0
    /\ lastOp' = Op("force", None, None, TRUE)
    /\ UNCHANGED <<item, versions, blobRow, blobFile, current, archive,
                   lastSyncAt, session, eng, gc, clock, hist>>
    /\ UNCHANGED <<dispVars, extVars>>

\* A run that checked the account before it refreshed the token.
PreconditionActiveFirst(tokenOk, active) ==
    IF ~active THEN "SyncAbortedError"
    ELSE IF ~tokenOk THEN "TokenRefreshError" ELSE "ok"

\* The checks at the head of run_sync: the token refresh, then is_active.
Precondition(tokenOk, active) ==
    IF ~tokenOk THEN "TokenRefreshError"
    ELSE IF ~active THEN "SyncAbortedError" ELSE "ok"

\* What was wrong with the account when run_sync was called.
AccountCondition(tokenOk, active) ==
    IF ~tokenOk /\ ~active THEN "expired_inactive"
    ELSE IF ~tokenOk THEN "expired"
    ELSE IF ~active THEN "inactive" ELSE "fine"

\* run_sync raises before it creates a session.
RefuseSync(tokenOk, active) ==
    /\ eng.pc = "idle"
    /\ Precondition(tokenOk, active) # "ok"
    /\ lastOp' = Op("refused", AccountCondition(tokenOk, active),
                    Precondition(tokenOk, active), FALSE)
    /\ UNCHANGED <<item, versions, blobRow, blobFile, current, archive,
                   syncCursor, lastSyncAt, session, eng, gc, clock, hist>>
    /\ UNCHANGED <<dispVars, extVars>>

\* run_sync up to the creation of the session.  head is the start page
\* token the provider hands an initial sync; budget is the number of
\* changes the provider's stream holds for this run.
StartSync(head, budget) ==
    /\ eng.pc = "idle"
    /\ clock < MaxTime
    /\ LET initial == IsInitial(syncCursor, lastSyncAt)
       IN /\ head = (IF initial THEN head ELSE 0)
          /\ initial => head # 0
          /\ clock' = clock + 1
          /\ session' = [status |-> "running", initial |-> initial,
                         startCursor |-> syncCursor, endCursor |-> 0,
                         errors |-> 0, filesDeleted |-> 0,
                         errorMessage |-> None]
          /\ eng' = [IdleEngine EXCEPT !.pc = "fetch", !.start = clock + 1,
                                       !.initial = initial,
                                       !.startTok = head,
                                       !.left = budget,
                                       !.pageTok = IF initial THEN 1
                                                   ELSE syncCursor]
    /\ hist' = [i \in ItemIds |-> [hist[i] EXCEPT !.touched = FALSE]]
    /\ lastOp' = Op("start", None, None, TRUE)
    /\ UNCHANGED <<item, versions, blobRow, blobFile, current, archive,
                   syncCursor, lastSyncAt, gc>>
    /\ UNCHANGED <<dispVars, extVars>>

(***************************************************************************)
(* GoogleDriveClient.iter_all_changes: one list_changes page.              *)
(***************************************************************************)
\* current_token = new_start_page_token or next_page_token or page_token
CurrentToken(ns, nx, pageTok) ==
    IF ns # 0 THEN ns ELSE IF nx # 0 THEN nx ELSE pageTok

\* The provider answers a page with a next page token or, on the last
\* page, a new start page token; a page with neither also ends the stream.
PageAnswers(pageTok) ==
    {<<0, 0>>}
    \cup {<<0, nx>> : nx \in {t \in 1..MaxToken : t = pageTok + 1}}
    \cup {<<ns, 0>> : ns \in {t \in 1..MaxToken : t >= pageTok /\ t <= pageTok + 1}}

FetchPage(hasChanges, ns, nx) ==
    /\ eng.pc = "fetch"
    /\ <<ns, nx>> \in PageAnswers(eng.pageTok)
    /\ hasChanges => eng.left > 0
    /\ eng' = IF hasChanges
              THEN [eng EXCEPT !.pc = "batch",
                               !.curTok = CurrentToken(ns, nx, eng.pageTok),
                               !.cont = (ns = 0 /\ nx # 0),
                               !.nextTok = nx,
                               !.inBatch = 0]
              ELSE IF ns = 0 /\ nx # 0
                   THEN [eng EXCEPT !.pageTok = nx]
                   ELSE [eng EXCEPT !.pc = "drained"]
    /\ lastOp' = Op("page", None, None, TRUE)
    /\ UNCHANGED <<item, versions, blobRow, blobFile, current, archive,
                   syncCursor, lastSyncAt, session, gc, clock, hist>>
    /\ UNCHANGED <<dispVars, extVars>>

(***************************************************************************)
(* SyncEngine._process_change_batch: one change in its own transaction.    *)
(* A change is [id, kind, rev]; dl is the file's is_downloadable; d is the *)
(* digest of the bytes a download returns; out is how the transaction      *)
(* ends:                                                                   *)
(*   "ok"        it commits;                                               *)
(*   "dl_fail"   the download or the blob write raised before any blob     *)
(*               file was put in place (DownloadError, StorageError);      *)
(*   "late_fail" a statement after the blob write raised: the transaction  *)
(*               is rolled back and the error recorded.                    *)
(***************************************************************************)
Changes == [id : ItemIds, kind : {"removed", "trashed", "present"}, rev : Revs]
Outcomes == {"ok", "dl_fail", "late_fail"}

\* content_changed of an existing item
ContentChanged(it, c) == it.rev # c.rev

\* The BackupItem an add/update change creates.
NewItem(c) == [exists |-> TRUE, state |-> "active", count |-> 0,
               lastSeen |-> eng.start, rev |-> c.rev, changedAt |-> clock]

\* An update that left the item's metadata as they were.
StaleFile(it, c) == it

\* The update of an existing FILE item, with the reset on reappearance.
UpdatedFile(it, c) ==
    [it EXCEPT !.rev = c.rev,
               !.lastSeen = eng.start,
               !.state = "active",
               !.count = IF it.state # "active" THEN 0 ELSE it.count]

\* update_or_create of a FOLDER item: the defaults it writes.
UpdatedFolder(it, c) ==
    [it EXCEPT !.rev = c.rev, !.state = "active", !.lastSeen = eng.start]

\* The item after _process_file_deleted.
DeletedItem(it) ==
    [it EXCEPT !.state = "deleted_upstream", !.changedAt = clock, !.count = 0]

\* This step's history: the run now holds a change for id; a committed
\* change restarts what the later runs count.
Touch(id, committed) ==
    [hist EXCEPT ![id] = IF committed
                         THEN [@ EXCEPT !.touched = TRUE, !.sweeps = 0]
                         ELSE [@ EXCEPT !.touched = TRUE]]

\* _process_file_deleted; mv is whether the move to archive/ succeeds.
ProcessFileDeleted(c, out, mv) ==
    LET it == item[c.id]
        moved == IF mv THEN FilesOf({c.id}) ELSE {}
    IN /\ out \in {"ok", "late_fail"}
       /\ ~it.exists => (out = "ok" /\ ~mv)
       /\ IF it.exists /\ out = "ok"
          THEN /\ item' = [item EXCEPT ![c.id] = DeletedItem(it)]
               /\ versions' = [versions EXCEPT ![c.id] = WithPreDelete(c.id)]
          ELSE UNCHANGED <<item, versions>>
       /\ archive' = IF it.exists THEN ArchiveAfterMove(moved) ELSE archive
       /\ current' = IF it.exists THEN CurrentAfterMove(moved) ELSE current
       /\ hist' = Touch(c.id, it.exists /\ out = "ok")
       /\ lastOp' = ChangeOp("deleted", c, "d1", mv, out, it.exists /\ out = "ok")
       /\ UNCHANGED <<blobRow, blobFile>>

\* _process_folder
ProcessFolder(c, out) ==
    LET it == item[c.id]
    IN /\ out \in {"ok", "late_fail"}
       /\ item' = IF out = "ok"
                  THEN [item EXCEPT ![c.id] = IF it.exists
                                              THEN UpdatedFolder(it, c)
                                              ELSE NewItem(c)]
                  ELSE item
       /\ hist' = Touch(c.id, out = "ok")
       /\ lastOp' = ChangeOp("folder", c, "d1", FALSE, out, out = "ok")
       /\ UNCHANGED <<versions, blobRow, blobFile, current, archive>>

\* A transaction whose writes stay whatever its end.
CommitsDespiteRaise(isNew, out) == TRUE

\* transaction.atomic around one file change: the writes stay when no
\* exception leaves the block, which a failed download of a tracked file
\* does not.
Commits(isNew, out) == out = "ok" \/ (out = "dl_fail" /\ ~isNew)

\* _process_file_added_or_updated with _download_and_store
ProcessFileAddedOrUpdated(c, dl, d, out) ==
    LET it == item[c.id]
        isNew == ~it.exists
        changed == isNew \/ ContentChanged(it, c)
        attempt == changed /\ dl
        stored == attempt /\ out # "dl_fail"
        commits == Commits(isNew, out)
        digest == IF attempt /\ out = "ok" THEN d ELSE None
    IN /\ out = "dl_fail" => attempt
       /\ ~attempt => d = "d1"
       /\ blobFile' = IF stored THEN blobFile \cup {d} ELSE blobFile
       /\ IF commits
          THEN /\ item' = [item EXCEPT ![c.id] = IF isNew THEN NewItem(c)
                                                 ELSE UpdatedFile(it, c)]
               /\ blobRow' = IF digest # None THEN blobRow \cup {digest}
                             ELSE blobRow
               /\ versions' = IF digest # None
                              THEN [versions EXCEPT ![c.id] =
                                       Append(@, [blob |-> digest,
                                                  reason |-> "update",
                                                  at |-> clock])]
                              ELSE versions
               /\ current' = IF digest # None
                             THEN [current EXCEPT ![c.id] = digest]
                             ELSE current
          ELSE UNCHANGED <<item, blobRow, versions, current>>
       /\ hist' = Touch(c.id, commits)
       /\ lastOp' = ChangeOp("file", c, d, FALSE, out, commits)
       /\ UNCHANGED archive

\* The change's transaction raises out of _process_file_change: the batch
\* loop catches the exception, creates one ERROR SyncEvent and appends the
\* error to the result.  A failed download of a tracked file is caught
\* before that, inside _process_file_added_or_updated.
ChangeRaises(c, out) ==
    out = "late_fail" \/ (out = "dl_fail" /\ ~item[c.id].exists)

\* The change adds one to the result's files_deleted: a committed deletion
\* of a tracked item, in an incremental sync (the loop of the initial sync
\* does not add the deletions up).
CountsDeletion(c, out) ==
    ~eng.initial /\ IsDeletion(c) /\ item[c.id].exists /\ out = "ok"

\* _process_file_change: the classification of a change.  An initial sync
\* drops the removed changes of a page before the batch is processed.
ProcessChange(c, dl, d, out, mv) ==
    /\ eng.pc = "batch"
    /\ eng.left > 0
    /\ eng' = [eng EXCEPT !.left = @ - 1, !.inBatch = @ + 1,
                          !.deleted = IF CountsDeletion(c, out) THEN @ + 1
                                      ELSE @]
    /\ IF eng.initial /\ ~KeptByInitial(c)
       THEN /\ out = "ok" /\ ~mv /\ ~dl /\ d = "d1"
            /\ hist' = Touch(c.id, FALSE)
            /\ lastOp' = ChangeOp("filtered", c, d, FALSE, out, FALSE)
            /\ UNCHANGED <<item, versions, blobRow, blobFile, current, archive>>
       ELSE IF IsDeletion(c)
            THEN ~dl /\ d = "d1" /\ ProcessFileDeleted(c, out, mv)
            ELSE IF IsFolder(c.id)
                 THEN ~mv /\ ~dl /\ d = "d1" /\ ProcessFolder(c, out)
                 ELSE ~mv /\ ProcessFileAddedOrUpdated(c, dl, d, out)
    /\ session' = IF ChangeRaises(c, out)
                  THEN [session EXCEPT !.errors = @ + 1]
                  ELSE session
    /\ UNCHANGED <<syncCursor, lastSyncAt, gc, clock>>
    /\ UNCHANGED <<dispVars, extVars>>

\* A checkpoint that left the session as it was.
CheckpointSkipped(tok) == session

\* _save_checkpoint at the end of a batch, then the generator's next step.
CheckpointCursor(tok) == [session EXCEPT !.endCursor = tok]

\* A checkpoint that also stored its token on the SyncRoot.
RootCursorAdvancing(tok) == tok

\* The SyncRoot's cursor after a checkpoint: the checkpoint writes the
\* session only.
RootCursorAtCheckpoint(tok) == syncCursor

Checkpoint ==
    /\ eng.pc = "batch"
    /\ eng.inBatch >= 1
    /\ session' = CheckpointCursor(eng.curTok)
    /\ syncCursor' = RootCursorAtCheckpoint(eng.curTok)
    /\ eng' = IF eng.cont
              THEN [eng EXCEPT !.pc = "fetch", !.pageTok = eng.nextTok]
              ELSE [eng EXCEPT !.pc = "drained"]
    /\ lastOp' = Op("checkpoint", None, None, TRUE)
    /\ UNCHANGED <<item, versions, blobRow, blobFile, current, archive,
                   lastSyncAt, gc, clock, hist>>
    /\ UNCHANGED <<dispVars, extVars>>

(***************************************************************************)
(* SyncEngine._update_deletion_states: the sweep of an incremental sync.   *)
(***************************************************************************)
\* The queryset missing_items.
MissingItems ==
    {i \in ItemIds : /\ item[i].exists
                     /\ item[i].state = "active"
                     /\ item[i].lastSeen < eng.start}

\* The items of the SyncRoot that no change of this run was applied to.
Unseen == {i \in ItemIds : item[i].exists /\ item[i].lastSeen < eng.start}

\* The threshold of the two-strike rule.
QuarantineThreshold == 2

\* The body of the sweep's loop for one item.
SweptItem(it) ==
    LET n == it.count + 1
    IN IF n >= QuarantineThreshold
       THEN [it EXCEPT !.count = n, !.state = "quarantined",
                       !.changedAt = clock]
       ELSE IF it.state = "active"
            THEN [it EXCEPT !.count = n, !.state = "missing_upstream",
                            !.changedAt = clock]
            ELSE [it EXCEPT !.count = n]

\* The items the sweep quarantines among those it processes.
Quarantining(done) ==
    {i \in done : item[i].count + 1 >= QuarantineThreshold}

\* The effect of the loop over the items of done; mv is whether the moves
\* to archive/ succeed.
SweepEffect(done, mv) ==
    /\ item' = [i \in ItemIds |->
                   IF i \in done THEN SweptItem(item[i]) ELSE item[i]]
    /\ versions' = [i \in ItemIds |->
                       IF i \in Quarantining(done) THEN WithPreDelete(i)
                       ELSE versions[i]]
    /\ LET moved == IF mv THEN FilesOf(Quarantining(done)) ELSE {}
       IN /\ archive' = ArchiveAfterMove(moved)
          /\ current' = CurrentAfterMove(moved)

\* The history of the items after a sweep: one more sweep has gone by
\* without a change for the unseen ones.
HistSwept ==
    [i \in ItemIds |->
        IF i \in Unseen THEN [hist[i] EXCEPT !.sweeps = @ + 1] ELSE hist[i]]

\* The history once the sweep of a sync has gone through: the sync ends
\* successfully, and the streak of an item it held no change for grows.
Tracked(it) == it.exists /\ it.state \in {"active", "missing_upstream"}
HistStreak ==
    [i \in ItemIds |->
        [HistSwept[i] EXCEPT !.streak =
            IF ~hist[i].touched /\ Tracked(item[i]) THEN @ + 1 ELSE 0]]
HistReset(h) == [i \in ItemIds |-> [h[i] EXCEPT !.streak = 0]]

Sweep(mv) ==
    /\ eng.pc = "drained"
    /\ ~eng.initial
    /\ mv => FilesOf(Quarantining(MissingItems)) # {}
    /\ SweepEffect(MissingItems, mv)
    /\ hist' = HistStreak
    /\ eng' = [eng EXCEPT !.pc = "finishing"]
    /\ lastOp' = Op("sweep", None, "ok", TRUE)
    /\ UNCHANGED <<blobRow, blobFile, syncCursor, lastSyncAt, session, gc,
                   clock>>
    /\ UNCHANGED <<dispVars, extVars>>

(***************************************************************************)
(* The end of a run.                                                       *)
(***************************************************************************)
\* last_token = self.session.end_cursor or self.sync_root.sync_cursor
LastToken == IF session.endCursor # 0 THEN session.endCursor ELSE syncCursor

\* run_sync after _run_initial_sync or _run_incremental_sync returned: the
\* session is COMPLETED with the counters of the result.
CompletedSession ==
    [session EXCEPT !.status = "completed", !.filesDeleted = eng.deleted]

\* _run_incremental_sync after the sweep, and run_sync's completion.
FinishIncremental ==
    /\ eng.pc = "finishing"
    /\ syncCursor' = LastToken
    /\ lastSyncAt' = clock
    /\ session' = CompletedSession
    /\ eng' = IdleEngine
    /\ lastOp' = Op("finish", None, "incremental", TRUE)
    /\ UNCHANGED <<item, versions, blobRow, blobFile, current, archive, gc,
                   clock, hist>>
    /\ UNCHANGED <<dispVars, extVars>>

\* _run_initial_sync after the last batch, and run_sync's completion.
FinishInitial ==
    /\ eng.pc = "drained"
    /\ eng.initial
    /\ syncCursor' = eng.startTok
    /\ lastSyncAt' = clock
    /\ session' = [CompletedSession EXCEPT !.endCursor = eng.startTok]
    /\ eng' = IdleEngine
    /\ hist' = HistReset(hist)
    /\ lastOp' = Op("finish", None, "initial", TRUE)
    /\ UNCHANGED <<item, versions, blobRow, blobFile, current, archive, gc,
                   clock>>
    /\ UNCHANGED <<dispVars, extVars>>

\* An except branch that recorded the message and left the status alone.
SessionLeftRunning(msg) == [session EXCEPT !.errorMessage = msg]

\* run_sync's except branch: the session is marked failed with the text of
\* the exception, which is re-raised.
FailedSession(msg) ==
    [session EXCEPT !.status = "failed", !.errorMessage = msg]

\* A provider call (get_start_page_token, list_changes) or the checkpoint
\* of a batch raises.
FailInStream ==
    /\ eng.pc \in {"fetch", "batch"}
    /\ session' = FailedSession("stream")
    /\ eng' = IdleEngine
    /\ hist' = HistReset(hist)
    /\ lastOp' = Op("fail", None, "stream", FALSE)
    /\ UNCHANGED <<item, versions, blobRow, blobFile, current, archive,
                   syncCursor, lastSyncAt, gc, clock>>
    /\ UNCHANGED <<dispVars, extVars>>

\* The sweep raises after the items of done were saved.
FailInSweep(done, mv) ==
    /\ eng.pc = "drained"
    /\ ~eng.initial
    /\ done \subseteq MissingItems
    /\ done = MissingItems => MissingItems = {}
    /\ mv => FilesOf(Quarantining(done)) # {}
    /\ SweepEffect(done, mv)
    /\ hist' = HistReset(HistSwept)
    /\ session' = FailedSession("sweep")
    /\ eng' = IdleEngine
    /\ lastOp' = Op("fail", None, "sweep", FALSE)
    /\ UNCHANGED <<blobRow, blobFile, syncCursor, lastSyncAt, gc, clock>>
    /\ UNCHANGED <<dispVars, extVars>>

(***************************************************************************)
(* GarbageCollector.run, for the account: its three phases in order.       *)
(***************************************************************************)
\* cutoff_date = timezone.now() - timedelta(days=keep_days)
Cutoff == clock - KeepDays

\* The versions of an item that phase 1 keeps: with the versions ordered
\* newest first, index i >= keep_n and captured_at < cutoff is deleted.
\* vs is in capture order, so the newest-first index of vs[k] is Len(vs)-k.
RECURSIVE KeepFrom(_, _)
KeepFrom(vs, k) ==
    IF k > Len(vs) THEN <<>>
    ELSE IF Len(vs) - k >= KeepLastN /\ vs[k].at < Cutoff
         THEN KeepFrom(vs, k + 1)
         ELSE <<vs[k]>> \o KeepFrom(vs, k + 1)

\* A purge that kept the newest keep_n versions and nothing else.
RetainedNewestOnly(vs) ==
    IF Len(vs) <= KeepLastN THEN vs
    ELSE SubSeq(vs, Len(vs) - KeepLastN + 1, Len(vs))

RetainedVersions(vs) == IF Len(vs) <= KeepLastN THEN vs ELSE KeepFrom(vs, 1)

\* total_purged: the versions phase 1 selects, over the items.
RECURSIVE PurgeCount(_)
PurgeCount(ids) ==
    IF ids = {} THEN 0
    ELSE LET i == CHOOSE x \in ids : TRUE
         IN Len(versions[i]) - Len(RetainedVersions(versions[i]))
            + PurgeCount(ids \ {i})

\* The digests some FileVersion references.
Referenced ==
    UNION {{versions[i][k].blob : k \in 1..Len(versions[i])} : i \in ItemIds}

\* A purge that deleted the versions in a dry run too.
VersionsPurgedAlways(dry) ==
    [i \in ItemIds |-> RetainedVersions(versions[i])]

\* The FileVersion rows after phase 1: a dry run only logs its candidates.
VersionsAfterPurge(dry) ==
    IF dry THEN versions
    ELSE [i \in ItemIds |-> RetainedVersions(versions[i])]

\* _purge_old_versions: the start of a run and its phase 1.
GcPurgeVersions(dry) ==
    /\ gc.pc = "idle"
    /\ gc' = [pc |-> "select", dry |-> dry, orphans |-> {},
              purged |-> PurgeCount(ItemIds), blobs |-> 0]
    /\ versions' = VersionsAfterPurge(dry)
    /\ lastOp' = Op("gc_versions", None, None, TRUE)
    /\ UNCHANGED <<item, blobRow, blobFile, current, archive, syncCursor,
                   lastSyncAt, session, eng, clock, hist>>
    /\ UNCHANGED <<dispVars, extVars>>

\* The orphaned_blobs list of _delete_orphaned_blobs: rows with no version.
OrphanedBlobs == {d \in blobRow : d \notin Referenced}

\* _delete_orphaned_blobs up to its list of candidates; a dry run returns
\* their number as the count of blobs.
GcSelectOrphans ==
    /\ gc.pc = "select"
    /\ gc' = IF OrphanedBlobs = {}
             THEN [gc EXCEPT !.pc = "quarantine"]
             ELSE IF gc.dry
                  THEN [gc EXCEPT !.pc = "quarantine",
                                  !.blobs = Cardinality(OrphanedBlobs)]
                  ELSE [gc EXCEPT !.pc = "delete", !.orphans = OrphanedBlobs]
    /\ lastOp' = Op("gc_select", None, None, TRUE)
    /\ UNCHANGED <<item, versions, blobRow, blobFile, current, archive,
                   syncCursor, lastSyncAt, session, eng, clock, hist>>
    /\ UNCHANGED <<dispVars, extVars>>

\* A delete loop that removed the file and kept the row.
RowsKept(d) == blobRow

\* The row of digest d after BackupBlob.objects.filter(digest=d).delete():
\* FileVersion.blob is on_delete=PROTECT, so a referenced row stays (the
\* ProtectedError is caught and logged).
RowsAfterDelete(d) == IF d \in Referenced THEN blobRow ELSE blobRow \ {d}

\* The loop body of _delete_orphaned_blobs for one candidate: the file is
\* deleted, then the row, then the blob is counted.  fsOk is whether
\* storage.delete_blob returns; an exception there, or at the delete of a
\* row that is referenced, skips the count.
GcDeleteBlob(d, fsOk) ==
    /\ gc.pc = "delete"
    /\ d \in gc.orphans
    /\ blobFile' = IF fsOk THEN blobFile \ {d} ELSE blobFile
    /\ blobRow' = IF fsOk THEN RowsAfterDelete(d) ELSE blobRow
    /\ gc' = [gc EXCEPT !.pc = IF gc.orphans = {d} THEN "quarantine" ELSE @,
                        !.orphans = @ \ {d},
                        !.blobs = IF fsOk /\ d \notin Referenced THEN @ + 1
                                  ELSE @]
    /\ lastOp' = Op("gc_blob", d, None, fsOk)
    /\ UNCHANGED <<item, versions, current, archive, syncCursor, lastSyncAt,
                   session, eng, clock, hist>>
    /\ UNCHANGED <<dispVars, extVars>>

\* A purge of every QUARANTINED item, whatever its age.
AllQuarantined ==
    {i \in ItemIds : item[i].exists /\ item[i].state = "quarantined"}

\* The queryset quarantined_items of _purge_quarantined_items.
ExpiredQuarantine ==
    {i \in ItemIds : /\ item[i].exists
                     /\ item[i].state = "quarantined"
                     /\ item[i].changedAt < Cutoff}

\* _purge_quarantined_items: phase 3 and the end of the run.
GcPurgeQuarantined ==
    /\ gc.pc = "quarantine"
    /\ IF gc.dry
       THEN UNCHANGED <<item, archive>>
       ELSE /\ item' = [i \in ItemIds |->
                           IF i \in ExpiredQuarantine
                           THEN [item[i] EXCEPT !.state = "purged",
                                                !.changedAt = clock]
                           ELSE item[i]]
            /\ archive' = [i \in ItemIds |->
                              IF i \in ExpiredQuarantine THEN None
                              ELSE archive[i]]
    /\ gc' = IdleGc
    /\ lastOp' = Op("gc_quarantine", None, IF gc.dry THEN "dry" ELSE "run",
                    TRUE)
    /\ UNCHANGED <<versions, blobRow, blobFile, current, syncCursor,
                   lastSyncAt, session, eng, clock, hist>>
    /\ UNCHANGED <<dispVars, extVars>>

\* Time passes between runs.
Tick ==
    /\ eng.pc = "idle"
    /\ gc.pc = "idle"
    /\ clock < MaxTime
    /\ clock' = clock + 1
    /\ lastOp' = Op("tick", None, None, TRUE)
    /\ UNCHANGED <<item, versions, blobRow, blobFile, current, archive,
                   syncCursor, lastSyncAt, session, eng, gc, hist>>
    /\ UNCHANGED <<dispVars, extVars>>

(***************************************************************************)
(* The system: a new account whose SyncRoot was never synced.              *)
(***************************************************************************)
CoreInit ==
    /\ item = [i \in ItemIds |-> NoItem]
    /\ versions = [i \in ItemIds |-> <<>>]
    /\ blobRow = {}
    /\ blobFile = {}
    /\ current = [i \in ItemIds |-> None]
    /\ archive = [i \in ItemIds |-> None]
    /\ syncCursor = 0
    /\ lastSyncAt = 0
    /\ session = NoSession
    /\ eng = IdleEngine
    /\ gc = IdleGc
    /\ clock = 0
    /\ lastOp = NoOp
    /\ hist = [i \in ItemIds |-> NoHist]

DispIdle ==
    /\ queue = <<>>
    /\ worker = <<>>
    /\ running = <<>>
    /\ nextSyncAt = <<>>
    /\ rowLock = <<>>
    /\ disp = <<>>

\* No account of the collector's scope holds anything yet.
NoAccount == [versions |-> <<>>, files |-> {},
              folder |-> [state |-> "none", count |-> 0, changedAt |-> 0]]
ScopeIdle ==
    /\ acct = [a \in GcAccounts |-> NoAccount]
    /\ blobOwner = [d \in Digests |-> None]

\* No write_blob call is under way and blobs/ and tmp/ are empty.
IdleWriter == [pc |-> "idle", data |-> <<>>, expected |-> 0, hashed |-> <<>>,
               digest |-> 0, found |-> FALSE, result |-> None]
WriteIdle ==
    /\ writer = [w \in Writers |-> IdleWriter]
    /\ tmpFile = [w \in Writers |-> NoFile]
    /\ blobPath = [d \in DigestSpace |-> NoFile]

\* current/ and archive/ are empty.
EmptyTree == [files |-> [p \in FilePaths |-> None], dirs |-> {}]
NoTrip == [stage |-> "none", path |-> <<>>,
           before |-> [p \in FilePaths |-> None], replaced |-> FALSE]
TreeIdle ==
    /\ tree = [cur |-> EmptyTree, arc |-> EmptyTree]
    /\ trip = NoTrip

\* The SyncRoot has no item and no engine.
NoPathOp == [id |-> None, parent |-> None, name |-> None, done |-> FALSE]
PathIdle ==
    /\ pathItem = [i \in PathIds |-> [path |-> NoPath, run |-> 0]]
    /\ pathCache = [i \in PathIds |-> NoPath]
    /\ pathEng = [pc |-> "idle", run |-> 0, left |-> 0]
    /\ pathOp = NoPathOp

\* No file name has come from the provider.
NameIdle ==
    /\ fileName = <<>>
    /\ safeName = <<>>

\* No reader is open.
NoReader == [pc |-> "none", file |-> <<>>, expected |-> 0, pos |-> 0,
             hashed |-> <<>>, verified |-> FALSE, failed |-> FALSE]

ReadIdle == reader = NoReader

SiblingIdle == siblings = <<>>

\* A secrets file without a record, written whole; no call is under way.
NoSecrets == [data |-> [k \in SecretKeys |-> None], whole |-> TRUE]
IdleSetter == [pc |-> "idle", token |-> None, secrets |-> NoSecrets.data,
               tmp |-> NoSecrets]

SecretIdle ==
    /\ secretsFile = NoSecrets
    /\ setter = [c \in Setters |-> IdleSetter]
    /\ seen = NoSecrets

ExtIdle ==
    /\ ScopeIdle /\ WriteIdle /\ TreeIdle /\ PathIdle /\ NameIdle /\ ReadIdle
    /\ SiblingIdle /\ SecretIdle

Init == CoreInit /\ DispIdle /\ ExtIdle

(***************************************************************************)
(* Spec: the deletion state machine.  Syncs of the SyncRoot follow one     *)
(* another, each with at most MaxChanges changes on a single page; every   *)
(* change commits and every file has the same revision and content.  The   *)
(* collector runs between the syncs, and time passes between the runs.     *)
(***************************************************************************)
StateChanges == {c \in Changes : c.rev = 1 \/ (c.id = "A" /\ c.kind = "present")}
\* Under Spec each revision of a file has its own content.
StateDigest(c) == IF c.rev = 1 THEN "d1" ELSE "d2"
\* Changes in one run under Spec.
StateRunChanges == 1

Next ==
    \/ \E head \in 0..1 : StartSync(head, StateRunChanges)
    \/ \E hasChanges \in BOOLEAN : FetchPage(hasChanges, 1, 0)
    \/ \E c \in StateChanges, mv \in BOOLEAN :
          ProcessChange(c, ~IsDeletion(c) /\ ~IsFolder(c.id), StateDigest(c),
                        "ok", mv)
    \/ Checkpoint
    \/ \E mv \in BOOLEAN : Sweep(mv)
    \/ FinishIncremental
    \/ FinishInitial
    \/ eng.pc = "idle" /\ GcPurgeVersions(FALSE)
    \/ GcSelectOrphans
    \/ \E d \in Digests : GcDeleteBlob(d, TRUE)
    \/ GcPurgeQuarantined
    \/ Tick

Spec == Init /\ [][Next]_vars

(***************************************************************************)
(* The deletion state machine (checked under Spec).                        *)
(***************************************************************************)
\* The step is the sweep that ends a sync in which no change referenced i.
SweepPasses(i) ==
    lastOp'.kind = "sweep" /\ item[i].exists /\ ~hist[i].touched

\* C1: two-strike quarantine.  An ACTIVE item that the first of two
\* successful incremental syncs in a row does not reference is
\* MISSING_UPSTREAM with count 1 after it, and when the second does not
\* reference it either it is QUARANTINED with count 2 after the second.
C1_TwoStrikeQuarantine ==
    [][\A i \in ItemIds :
          SweepPasses(i) =>
             /\ (hist[i].streak = 0 /\ item[i].state = "active"
                    /\ item[i].count = 0)
                => (item'[i].state = "missing_upstream" /\ item'[i].count = 1)
             /\ (hist[i].streak = 1 /\ item[i].state = "missing_upstream"
                    /\ item[i].count = 1)
                => (item'[i].state = "quarantined" /\ item'[i].count = 2)]_vars

\* C2: a single absence never quarantines.  A QUARANTINED item has been
\* unseen in at least two sweeps since a change for it was last applied.
C2_NoQuarantineOnSingleAbsence ==
    \A i \in ItemIds :
        (item[i].exists /\ item[i].state = "quarantined")
        => hist[i].sweeps >= 2

\* C3: reappearance resets the item.  A committed add/update or folder
\* change for an existing item that is not ACTIVE leaves it ACTIVE with
\* count 0 and lastSeenAt the start time of the sync.
C3_ReappearanceResets ==
    [][\A i \in ItemIds :
          (/\ lastOp'.kind \in {"file", "folder"}
           /\ lastOp'.id = i
           /\ lastOp'.done
           /\ item[i].exists
           /\ item[i].state # "active")
          => (/\ item'[i].state = "active"
              /\ item'[i].count = 0
              /\ item'[i].lastSeen = eng.start)]_vars

\* C4: deletion monotonicity.  When an ACTIVE or MISSING_UPSTREAM item is
\* unseen in two successful incremental syncs in a row, its count after
\* the later one is greater than its count after the earlier one.
C4_CountStrictlyIncreases ==
    [][\A i \in ItemIds :
          (SweepPasses(i) /\ hist[i].streak >= 1
              /\ item[i].state \in {"active", "missing_upstream"})
          => item'[i].count > item[i].count]_vars

\* C5: PURGED is terminal.  No step of a sync or of a collector run changes
\* the state of a PURGED item.
C5_PurgedIsTerminal ==
    [][\A i \in ItemIds :
          (item[i].exists /\ item[i].state = "purged")
          => item'[i].state = "purged"]_vars

\* The transitions of the diagram.
DiagramTransitions ==
    {<<"active", "missing_upstream">>,
     <<"missing_upstream", "quarantined">>,
     <<"missing_upstream", "active">>,
     <<"quarantined", "active">>,
     <<"active", "deleted_upstream">>,
     <<"quarantined", "purged">>}

\* C28: every change of the state of a BackupItem, by the engine or by the
\* collector, is a transition of the diagram.
C28_StateMachineConformance ==
    [][\A i \in ItemIds :
          (item[i].exists /\ item'[i].state # item[i].state) =>
             <<item[i].state, item'[i].state>> \in DiagramTransitions]_vars

(***************************************************************************)
(* CursorSpec: the cursor protocol.  Runs of the engine over paged change  *)
(* streams, with failures of the provider, of a checkpoint and of the      *)
(* sweep, and with force_initial.                                          *)
(***************************************************************************)
\* Runs of the engine under CursorSpec.
CursorRuns == 3
\* Changes in one run under CursorSpec.
CursorRunChanges == 1

CursorChanges == {c \in Changes : c.id = "A" /\ c.rev = 1}

CursorNext ==
    \/ clock < CursorRuns /\ \E head \in 0..MaxToken :
                                StartSync(head, CursorRunChanges)
    \/ ForceInitial
    \/ \E tokenOk \in BOOLEAN, active \in BOOLEAN : RefuseSync(tokenOk, active)
    \/ \E hasChanges \in BOOLEAN, ns \in 0..MaxToken, nx \in 0..MaxToken :
          FetchPage(hasChanges, ns, nx)
    \/ \E c \in CursorChanges, out \in {"ok", "late_fail"}, mv \in BOOLEAN :
          ProcessChange(c, ~IsDeletion(c), "d1", out, mv)
    \/ Checkpoint
    \/ Sweep(FALSE)
    \/ FinishIncremental
    \/ FinishInitial
    \/ FailInStream
    \/ \E done \in SUBSET ItemIds : FailInSweep(done, FALSE)

CursorSpec == Init /\ [][CursorNext]_vars

C7_CursorIsEndCursor ==
    lastOp.kind = "finish" =>
        /\ session.status = "completed"
        /\ syncCursor = session.endCursor

\* C11: a step of an initial sync creates no item for a deleted file, moves
\* no item to DELETED_UPSTREAM, MISSING_UPSTREAM or QUARANTINED and moves
\* nothing to archive/.
C11_InitialSyncNoDeletions ==
    [][(eng.initial /\ eng.pc \in {"batch", "drained"}) =>
          /\ archive' = archive
          /\ \A i \in ItemIds :
                /\ item'[i].state # item[i].state =>
                       item'[i].state \notin {"deleted_upstream",
                                              "missing_upstream",
                                              "quarantined"}
                /\ (~item[i].exists /\ item'[i].exists) =>
                       lastOp'.kind \notin {"deleted", "filtered"}]_vars

\* C14: the session of a run is RUNNING while the engine executes; when the
\* run returns it is COMPLETED with the result's counters, when it raises it
\* is FAILED with the text of the exception; no session stays RUNNING after
\* the run, and a COMPLETED or FAILED session keeps its status (only the
\* session of the next run takes its place).
C14_SessionOutcome ==
    [][/\ eng'.pc # "idle" => session'.status = "running"
       /\ eng'.pc = "idle" => session'.status # "running"
       /\ lastOp'.kind = "finish" =>
             /\ session'.status = "completed"
             /\ session'.filesDeleted = eng.deleted
             /\ session'.errorMessage = None
       /\ lastOp'.kind = "fail" =>
             /\ session'.status = "failed"
             /\ session'.errorMessage = lastOp'.out
       /\ (session.status \in {"completed", "failed"}
             /\ session' # session) => lastOp'.kind = "start"]_vars

\* A run failed in its sweep after a change of its batch had failed.
C14_FailedInSweep ==
    /\ lastOp.kind = "fail"
    /\ session.status = "failed"
    /\ session.errorMessage = "sweep"
    /\ session.errors > 0

C29_CursorWriteOrdering ==
    [][/\ lastOp'.kind = "checkpoint" =>
             /\ session'.endCursor = eng.curTok
             /\ syncCursor' = syncCursor
       /\ (eng.pc # "idle" /\ lastOp'.kind # "finish") =>
             syncCursor' = syncCursor
       /\ lastOp'.kind = "finish" =>
             /\ session.status = "running"
             /\ session'.status = "completed"
             /\ eng'.pc = "idle"
             /\ IF session.initial
                THEN eng.pc = "drained"
                ELSE eng.pc = "finishing" /\ lastOp.kind = "sweep"]_vars

\* An incremental sync completed after a checkpoint had stored a token
\* other than the cursor it started from, and the SyncRoot has that token.
C29_CompletedAfterCheckpoint ==
    /\ lastOp.kind = "finish"
    /\ ~session.initial
    /\ session.endCursor # 0
    /\ session.endCursor # session.startCursor
    /\ syncCursor = session.endCursor

(***************************************************************************)
(* BlobSpec: the blob store under sync and GC on one account.  One file    *)
(* whose content changes between two digests, every outcome of a change's  *)
(* transaction, and GC runs whose steps interleave with the engine's.      *)
(***************************************************************************)
\* Runs of the engine under BlobSpec.
BlobRuns == 2

BlobChanges == {c \in Changes : c.id = "A"}

BlobNext ==
    \/ clock < BlobRuns /\ \E head \in 0..1 : StartSync(head, MaxChanges)
    \/ \E hasChanges \in BOOLEAN : FetchPage(hasChanges, 1, 0)
    \/ \E c \in BlobChanges, d \in Digests, out \in Outcomes, mv \in BOOLEAN :
          ProcessChange(c, ~IsDeletion(c), d, out, mv)
    \/ Checkpoint
    \/ Sweep(FALSE)
    \/ FinishIncremental
    \/ FinishInitial
    \/ \E dry \in BOOLEAN : GcPurgeVersions(dry)
    \/ GcSelectOrphans
    \/ \E d \in Digests, fsOk \in BOOLEAN : GcDeleteBlob(d, fsOk)
    \/ GcPurgeQuarantined

BlobSpec == Init /\ [][BlobNext]_vars

\* C8: every FileVersion references a blob that has its row and its file.
C8_ReferenceIntegrity ==
    \A i \in ItemIds : \A k \in 1..Len(versions[i]) :
        /\ versions[i][k].blob \in blobRow
        /\ versions[i][k].blob \in blobFile

\* C9: with no GC run in flight (a change's transaction is one step), the
\* digests with a BackupBlob row are the digests with a file in blobs/.
C9_RowFileCorrespondence == gc.pc = "idle" => blobRow = blobFile

\* C12: a change processed twice in succession, committing both times,
\* leaves the item's state, counter and revision and its FileVersions as
\* the first processing left them.
C12_IdempotentReplay ==
    [][(/\ lastOp.chg # NoChange
        /\ lastOp'.chg = lastOp.chg
        /\ lastOp.done /\ lastOp'.done) =>
          /\ versions' = versions
          /\ \A i \in ItemIds :
                /\ item'[i].exists = item[i].exists
                /\ item'[i].state = item[i].state
                /\ item'[i].count = item[i].count
                /\ item'[i].rev = item[i].rev]_vars

\* C13: a change whose processing fails (download, storage or another
\* exception) adds exactly one ERROR SyncEvent to the session and leaves the
\* batch running, so the later changes and the checkpoint follow.
C13_ErrorIsolation ==
    [][(lastOp'.chg # NoChange /\ lastOp'.out # "ok") =>
          /\ session'.errors = session.errors + 1
          /\ session'.status = "running"
          /\ eng'.pc = "batch"]_vars

\* C16: in an incremental sync a committed removed or trashed change for a
\* tracked FILE sets it DELETED_UPSTREAM with missing count 0, appends one
\* PRE_DELETE version on the blob of its latest version when it has a
\* version (none otherwise) and, the move succeeding, moves current/<path>
\* to archive/<path>; for an untracked id it changes nothing and counts no
\* deletion.
C16_ExplicitDeletion ==
    [][(lastOp'.kind = "deleted" /\ lastOp'.out = "ok" /\ ~eng.initial) =>
          LET i == lastOp'.id
              vs == versions[i]
          IN IF ~item[i].exists
             THEN /\ UNCHANGED <<item, versions, blobRow, blobFile, current,
                                 archive>>
                  /\ eng'.deleted = eng.deleted
             ELSE IsFolder(i) \/
                  /\ item'[i].state = "deleted_upstream"
                  /\ item'[i].count = 0
                  /\ versions'[i] =
                        IF Len(vs) > 0
                        THEN Append(vs, [blob |-> vs[Len(vs)].blob,
                                         reason |-> "pre_delete",
                                         at |-> clock])
                        ELSE vs
                  /\ eng'.deleted = eng.deleted + 1
                  /\ lastOp'.chg.mv =>
                        /\ current'[i] = None
                        /\ current[i] # None => archive'[i] = current[i]]_vars

\* An incremental sync deleted tracked file A: the tombstone is its last
\* version and its file is in archive/.
C16_DeletedWithTombstone ==
    /\ lastOp.kind = "deleted" /\ lastOp.done /\ lastOp.id = "A"
    /\ ~session.initial
    /\ item["A"].state = "deleted_upstream"
    /\ Len(versions["A"]) >= 2
    /\ versions["A"][Len(versions["A"])].reason = "pre_delete"
    /\ archive["A"] # None /\ current["A"] = None

\* The versions of vs that the retention rule keeps: a version stays iff
\* its newest-first index is below keepLastN or it was captured at or after
\* now - keepDays.
Kept(vs) ==
    {k \in 1..Len(vs) : Len(vs) - k < KeepLastN \/ vs[k].at >= clock - KeepDays}

\* C17: phase 1 of a GC run that is not a dry run leaves, of every item's
\* versions, exactly those the retention rule keeps, in their order, and
\* versions_purged is the number it removed.
C17_VersionRetention ==
    [][(lastOp'.kind = "gc_versions" /\ ~gc'.dry) =>
          /\ \A i \in ItemIds :
                /\ Len(versions'[i]) = Cardinality(Kept(versions[i]))
                /\ \A k \in Kept(versions[i]) :
                      versions'[i][Cardinality({j \in Kept(versions[i]) :
                                                  j <= k})] = versions[i][k]
          /\ gc'.purged = Len(versions["A"]) - Len(versions'["A"])
                          + Len(versions["D"]) - Len(versions'["D"])]_vars

\* Phase 1 purged one version of file A and kept two: the newest, and one
\* beyond keepLastN that is not older than the cutoff.
C17_PurgedOneKeptTwo ==
    /\ lastOp.kind = "gc_versions"
    /\ ~gc.dry
    /\ gc.purged = 1
    /\ Len(versions["A"]) = 2

\* C30: a change whose processing raises (after the blob write, or at the
\* download of a file that is not tracked yet) leaves every BackupItem,
\* every FileVersion and every BackupBlob row as it was and keeps none of
\* its own events; one ERROR event is added for it.
C30_PerChangeAtomicity ==
    [][(/\ lastOp'.kind \in {"file", "folder", "deleted"}
        /\ \/ lastOp'.out = "late_fail"
           \/ lastOp'.out = "dl_fail" /\ ~item[lastOp'.id].exists) =>
          /\ item' = item
          /\ versions' = versions
          /\ blobRow' = blobRow
          /\ ~lastOp'.done
          /\ session'.errors = session.errors + 1
          /\ syncCursor' = syncCursor]_vars

\* The change of an untracked file raised after its blob was written: the
\* blob file is in the store, and there is no row, item or version for it.
C30_RaisedAfterBlobWrite ==
    /\ lastOp.kind = "file"
    /\ lastOp.out = "late_fail"
    /\ lastOp.chg.d \in blobFile \ blobRow
    /\ ~item[lastOp.id].exists
    /\ versions[lastOp.id] = <<>>
    /\ session.errors >= 1

C32_NoDuplicateVersion ==
    [][\A i \in ItemIds :
          (/\ lastOp'.kind = "file"
           /\ lastOp'.id = i
           /\ lastOp'.out = "ok"
           /\ item[i].exists
           /\ Len(versions[i]) > 0
           /\ lastOp'.chg.d = versions[i][Len(versions[i])].blob)
          => versions'[i] = versions[i]]_vars

\* C33: when the download or the blob write of a file change fails, an
\* untracked file gets no BackupItem and the change is recorded as an
\* error; a tracked file gets the change's metadata and the sync's start
\* time as lastSeenAt, no FileVersion, keeps its file in current/, and no
\* error is recorded.
C33_DownloadFailureHandling ==
    [][(lastOp'.kind = "file" /\ lastOp'.out = "dl_fail") =>
          LET i == lastOp'.id
          IN IF ~item[i].exists
             THEN /\ item' = item
                  /\ versions' = versions
                  /\ ~lastOp'.done
                  /\ session'.errors = session.errors + 1
             ELSE /\ item'[i].exists
                  /\ item'[i].rev = lastOp'.chg.c.rev
                  /\ item'[i].lastSeen = eng.start
                  /\ versions' = versions
                  /\ current' = current
                  /\ blobRow' = blobRow
                  /\ lastOp'.done
                  /\ session'.errors = session.errors]_vars

\* The download for a new revision of tracked file A failed: A has the
\* new revision, its one version and its file in current/, and the session
\* has no error.
C33_TrackedFileKeptContent ==
    /\ lastOp.kind = "file" /\ lastOp.out = "dl_fail" /\ lastOp.done
    /\ lastOp.id = "A"
    /\ item["A"].rev = 2 /\ lastOp.chg.c.rev = 2
    /\ Len(versions["A"]) = 1
    /\ current["A"] = versions["A"][1].blob
    /\ session.errors = 0

(***************************************************************************)
(* GcSpec: garbage collection between syncs.  The syncs of Spec, with the  *)
(* runs of the engine and of the collector taking turns, GC runs that are  *)
(* dry runs or not, and no failure of the filesystem.                      *)
(***************************************************************************)
\* Runs of the engine under GcSpec.
GcRuns == 5
\* Changes in one run under GcSpec.
GcRunChanges == 1

GcNext ==
    \/ gc.pc = "idle" /\ clock < GcRuns /\ \E head \in 0..1 :
                                               StartSync(head, GcRunChanges)
    \/ \E hasChanges \in BOOLEAN : FetchPage(hasChanges, 1, 0)
    \/ \E c \in StateChanges, mv \in BOOLEAN :
          ProcessChange(c, ~IsDeletion(c) /\ ~IsFolder(c.id), StateDigest(c),
                        "ok", mv)
    \/ Checkpoint
    \/ \E mv \in BOOLEAN : Sweep(mv)
    \/ FinishIncremental
    \/ FinishInitial
    \/ eng.pc = "idle" /\ \E dry \in BOOLEAN : GcPurgeVersions(dry)
    \/ GcSelectOrphans
    \/ \E d \in Digests : GcDeleteBlob(d, TRUE)
    \/ GcPurgeQuarantined
    \/ Tick

GcSpec == Init /\ [][GcNext]_vars

\* C18: once phases 1 and 2 of a GC run that is not a dry run are done,
\* with no sync during the run and no failure of the filesystem, no
\* BackupBlob row is without a FileVersion, the blobs that phase 1 of the
\* same run orphaned included, and every blob a FileVersion references has
\* its row and its file; phase 3 leaves that so at the end of the run.
C18_OrphansReclaimed ==
    [][(gc.pc = "quarantine" /\ ~gc.dry) =>
          /\ OrphanedBlobs = {}
          /\ Referenced \subseteq blobRow \cap blobFile
          /\ lastOp'.kind = "gc_quarantine" =>
                /\ OrphanedBlobs' = {}
                /\ Referenced' \subseteq blobRow' \cap blobFile']_vars

\* Phase 2 has just deleted a blob that phase 1 of the same run orphaned;
\* the file's newest version keeps its blob.
C18_ReclaimedAfterPurge ==
    /\ lastOp.kind = "gc_blob" /\ lastOp.done
    /\ gc.pc = "quarantine" /\ ~gc.dry
    /\ gc.purged >= 1
    /\ lastOp.id \notin blobRow /\ lastOp.id \notin blobFile
    /\ Referenced # {}

\* C19: no step of a GC dry run changes a FileVersion, a BackupBlob row, a
\* blob file, a file of current/ or archive/, or a BackupItem.
C19_DryRunNoEffect ==
    [][(/\ lastOp'.kind \in {"gc_versions", "gc_select", "gc_blob",
                             "gc_quarantine"}
        /\ IF lastOp'.kind = "gc_versions" THEN gc'.dry ELSE gc.dry) =>
          UNCHANGED <<item, versions, blobRow, blobFile, current,
                      archive>>]_vars

\* A dry run has ended over a catalog that holds a version to purge and a
\* quarantined item to expire: both are still there.
C19_DryRunOverCandidates ==
    /\ lastOp.kind = "gc_quarantine" /\ lastOp.out = "dry"
    /\ PurgeCount(ItemIds) > 0
    /\ ExpiredQuarantine # {}

\* C20: phase 3 of a GC run that is not a dry run sets PURGED, with
\* stateChangedAt now, exactly the items that are QUARANTINED with
\* stateChangedAt < now - keepDays; every other item stays as it is.
C20_QuarantineExpiry ==
    [][(lastOp'.kind = "gc_quarantine" /\ lastOp'.out = "run") =>
          \A i \in ItemIds :
              item'[i] =
                  IF /\ item[i].exists
                     /\ item[i].state = "quarantined"
                     /\ item[i].changedAt < clock - KeepDays
                  THEN [item[i] EXCEPT !.state = "purged",
                                       !.changedAt = clock]
                  ELSE item[i]]_vars

\* Phase 3 has just purged folder D.
C20_FolderPurged ==
    /\ lastOp.kind = "gc_quarantine" /\ lastOp.out = "run"
    /\ item["D"].state = "purged"
    /\ item["D"].changedAt = clock

C35_DryRunReportsRealCounts ==
    [][(lastOp'.kind = "gc_select" /\ gc.dry) =>
          LET kept == [i \in ItemIds |-> RetainedVersions(versions[i])]
              refs == UNION {{kept[i][k].blob : k \in 1..Len(kept[i])} :
                               i \in ItemIds}
          IN gc'.blobs = Cardinality({d \in blobRow : d \notin refs})]_vars

(***************************************************************************)
(* DispatchSpec: who starts a sync.  The periodic tasks sync_due_accounts  *)
(* and sync_all_accounts put sync_account_task messages on the queue,      *)
(* Celery workers take them, and the sync_account command runs the engine  *)
(* in a process of its own.  The account has one enabled SyncRoot; a run   *)
(* of the engine is its RUNNING session from creation to its end.          *)
(***************************************************************************)
Accounts == {"a1"}
Workers == {"w1", "w2"}
Command == "cli"
Procs == Workers \cup {Command}
Beats == {"b1", "b2"}

\* Messages on the queue, at most.
MaxQueued == 2
\* Ticks of the clock under DispatchSpec.
DispatchTime == 2
\* sync_interval_minutes of the accounts, in ticks.
SyncInterval == 1
\* max_retries of sync_account_task
MaxRetries == 3

Messages == [acct : Accounts, tries : 0..MaxRetries]
IdleProc == [pc |-> "idle", acct |-> None, tries |-> 0]
IdleBeat == [pc |-> "idle", now |-> 0, todo |-> {}]

DispInit ==
    /\ queue = EmptyBag
    /\ worker = [p \in Procs |-> IdleProc]
    /\ running = [a \in Accounts |-> 0]
    /\ nextSyncAt = [a \in Accounts |-> 0]
    /\ rowLock = [a \in Accounts |-> None]
    /\ disp = [b \in Beats |-> IdleBeat]

\* sync_account_task.delay(account.id)
Delay(q, a) == q (+) SetToBag({[acct |-> a, tries |-> 0]})

\* sync_due_accounts: the SELECT ... FOR UPDATE SKIP LOCKED of the due
\* accounts, inside the transaction.
DueSelect(b) ==
    /\ disp[b].pc = "idle"
    /\ LET due == {a \in Accounts : nextSyncAt[a] <= clock /\ rowLock[a] = None}
       IN /\ rowLock' = [a \in Accounts |-> IF a \in due THEN b ELSE rowLock[a]]
          /\ disp' = [disp EXCEPT ![b] = [pc |-> "loop", now |-> clock,
                                          todo |-> due]]
    /\ UNCHANGED <<queue, worker, running, nextSyncAt>>
    /\ UNCHANGED <<coreVars, extVars>>

\* sync_due_accounts: one turn of the loop over the due accounts.
DueSchedule(b, a) ==
    /\ disp[b].pc = "loop"
    /\ a \in disp[b].todo
    /\ BagCardinality(queue) < MaxQueued
    /\ queue' = Delay(queue, a)
    /\ nextSyncAt' = [nextSyncAt EXCEPT ![a] = disp[b].now + SyncInterval]
    /\ disp' = [disp EXCEPT ![b].todo = @ \ {a}]
    /\ UNCHANGED <<worker, running, rowLock>>
    /\ UNCHANGED <<coreVars, extVars>>

\* sync_due_accounts: the transaction commits and the row locks go.
DueCommit(b) ==
    /\ disp[b].pc = "loop"
    /\ disp[b].todo = {}
    /\ rowLock' = [a \in Accounts |-> IF rowLock[a] = b THEN None
                                      ELSE rowLock[a]]
    /\ disp' = [disp EXCEPT ![b] = IdleBeat]
    /\ UNCHANGED <<queue, worker, running, nextSyncAt>>
    /\ UNCHANGED <<coreVars, extVars>>

\* sync_all_accounts: one task for an active account with an enabled root.
RECURSIVE DelayAll(_, _)
DelayAll(q, as) ==
    IF as = {} THEN q
    ELSE LET a == CHOOSE x \in as : TRUE
         IN DelayAll(Delay(q, a), as \ {a})

SyncAllAccounts ==
    /\ BagCardinality(queue) + Cardinality(Accounts) <= MaxQueued
    /\ queue' = DelayAll(queue, Accounts)
    /\ UNCHANGED <<worker, running, nextSyncAt, rowLock, disp>>
    /\ UNCHANGED <<coreVars, extVars>>

\* A worker takes a sync_account_task message.
TaskStart(w, m) ==
    /\ w \in Workers
    /\ worker[w].pc = "idle"
    /\ BagIn(m, queue)
    /\ queue' = queue (-) SetToBag({m})
    /\ worker' = [worker EXCEPT ![w] = [pc |-> "task", acct |-> m.acct,
                                        tries |-> m.tries]]
    /\ UNCHANGED <<running, nextSyncAt, rowLock, disp>>
    /\ UNCHANGED <<coreVars, extVars>>

\* The sync_account command for account a: it is not retried.
CommandStart(a) ==
    /\ worker[Command].pc = "idle"
    /\ worker' = [worker EXCEPT ![Command] = [pc |-> "task", acct |-> a,
                                              tries |-> MaxRetries]]
    /\ UNCHANGED <<queue, running, nextSyncAt, rowLock, disp>>
    /\ UNCHANGED <<coreVars, extVars>>

\* run_sync up to SyncSession.objects.create: the session is RUNNING.
RunSyncBegin(p) ==
    /\ worker[p].pc = "task"
    /\ running' = [running EXCEPT ![worker[p].acct] = @ + 1]
    /\ worker' = [worker EXCEPT ![p].pc = "running"]
    /\ UNCHANGED <<queue, nextSyncAt, rowLock, disp>>
    /\ UNCHANGED <<coreVars, extVars>>

\* The queue after the task of process p raised: autoretry_for puts the
\* message back while it has retries left.
Retried(p) ==
    IF worker[p].tries < MaxRetries
    THEN queue (+) SetToBag({[acct |-> worker[p].acct,
                              tries |-> worker[p].tries + 1]})
    ELSE queue

\* The end of the task: run_sync returned (ok) or the task raised, before
\* the session was created or with the session marked FAILED.
TaskEnd(p, ok) ==
    /\ worker[p].pc \in {"task", "running"}
    /\ ok => worker[p].pc = "running"
    /\ ~ok => BagCardinality(Retried(p)) <= MaxQueued
    /\ running' = IF worker[p].pc = "running"
                  THEN [running EXCEPT ![worker[p].acct] = @ - 1]
                  ELSE running
    /\ queue' = IF ok THEN queue ELSE Retried(p)
    /\ worker' = [worker EXCEPT ![p] = IdleProc]
    /\ UNCHANGED <<nextSyncAt, rowLock, disp>>
    /\ UNCHANGED <<coreVars, extVars>>

\* Time passes.
DispatchTick ==
    /\ clock < DispatchTime
    /\ clock' = clock + 1
    /\ UNCHANGED <<item, versions, blobRow, blobFile, current, archive,
                   syncCursor, lastSyncAt, session, eng, gc, lastOp, hist>>
    /\ UNCHANGED dispVars
    /\ UNCHANGED extVars

DispatchInit == CoreInit /\ DispInit /\ ExtIdle

DispatchNext ==
    \/ \E b \in Beats : DueSelect(b)
    \/ \E b \in Beats, a \in Accounts : DueSchedule(b, a)
    \/ \E b \in Beats : DueCommit(b)
    \/ SyncAllAccounts
    \/ \E w \in Workers, m \in Messages : TaskStart(w, m)
    \/ \E a \in Accounts : CommandStart(a)
    \/ \E p \in Procs : RunSyncBegin(p)
    \/ \E p \in Procs, ok \in BOOLEAN : TaskEnd(p, ok)
    \/ DispatchTick

DispatchSpec == DispatchInit /\ [][DispatchNext]_vars

\* C10: no SyncRoot has two RUNNING sessions at once.
C10_AtMostOneRunning == \A a \in Accounts : running[a] <= 1



(***************************************************************************)
(* ScopeSpec: the collector over two accounts.  Each account has one       *)
(* SyncRoot with a file and a folder, its own store and its own retention  *)
(* policy; BackupBlob rows are keyed by digest alone and carry the account *)
(* that created them.  A GarbageCollector is built for one account or for  *)
(* all of them, and a run goes through its three phases in one step.       *)
(***************************************************************************)
\* RetentionPolicy(account=a, sync_root=None) of each account.
PolicyOf(a) == IF a = "a1" THEN [keepLastN |-> 1, keepDays |-> 0]
               ELSE [keepLastN |-> 1, keepDays |-> 1]

\* cutoff_date of account a.
AccountCutoff(a) == clock - PolicyOf(a).keepDays

\* The engine of account a captures content d of its file: write_blob into
\* the account's store, get_or_create of the row (an existing row keeps its
\* account), and a FileVersion.
AccountCapture(a, d) ==
    /\ Len(acct[a].versions) < MaxAccountVersions
    /\ d = "d1" => \A k \in 1..Len(acct[a].versions) :
                      acct[a].versions[k].blob = "d1"
    /\ acct' = [acct EXCEPT ![a].versions = Append(@, [blob |-> d, at |-> clock]),
                            ![a].files = @ \cup {d}]
    /\ blobOwner' = [blobOwner EXCEPT ![d] = IF @ = None THEN a ELSE @]
    /\ lastOp' = Op("capture", a, d, TRUE)
    /\ UNCHANGED <<item, versions, blobRow, blobFile, current, archive,
                   syncCursor, lastSyncAt, session, eng, gc, clock, hist>>
    /\ UNCHANGED <<dispVars, extButScope>>

\* The engine of account a processes a change for its folder.
AccountFolderSeen(a) ==
    /\ acct[a].folder.state \in {"none", "missing_upstream"}
    /\ acct' = [acct EXCEPT ![a].folder.state = "active"]
    /\ lastOp' = Op("folder", a, None, TRUE)
    /\ UNCHANGED <<item, versions, blobRow, blobFile, current, archive,
                   syncCursor, lastSyncAt, session, eng, gc, clock, hist>>
    /\ UNCHANGED <<blobOwner, dispVars, extButScope>>

\* The sweep of an incremental sync of account a that held no change for
\* its folder.
AccountSweep(a) ==
    /\ acct[a].folder.state = "active"
    /\ acct' = [acct EXCEPT ![a].folder = SweptItem(@)]
    /\ lastOp' = Op("sweep", a, None, TRUE)
    /\ UNCHANGED <<item, versions, blobRow, blobFile, current, archive,
                   syncCursor, lastSyncAt, session, eng, gc, clock, hist>>
    /\ UNCHANGED <<blobOwner, dispVars, extButScope>>

\* accounts = [self.account] if self.account else Account.objects.all()
GcAccountsOf(target) == IF target = None THEN GcAccounts ELSE {target}

\* Phase 1 for one item of account a.
RECURSIVE AccountKeepFrom(_, _, _)
AccountKeepFrom(a, vs, k) ==
    IF k > Len(vs) THEN <<>>
    ELSE IF Len(vs) - k >= PolicyOf(a).keepLastN /\ vs[k].at < AccountCutoff(a)
         THEN AccountKeepFrom(a, vs, k + 1)
         ELSE <<vs[k]>> \o AccountKeepFrom(a, vs, k + 1)

AccountRetained(a, vs) ==
    IF Len(vs) <= PolicyOf(a).keepLastN THEN vs ELSE AccountKeepFrom(a, vs, 1)

\* The FileVersion rows of every account after phase 1.
VersionsAfterScopedPurge(target, dry) ==
    [a \in GcAccounts |->
        IF a \in GcAccountsOf(target) /\ ~dry
        THEN AccountRetained(a, acct[a].versions)
        ELSE acct[a].versions]

\* The digests referenced by the FileVersion rows vs of the accounts.
ReferencedIn(vs) ==
    UNION {{vs[a][k].blob : k \in 1..Len(vs[a])} : a \in GcAccounts}

\* An orphan query without the account filter.
UnscopedOrphans(target, vs) ==
    {d \in Digests : blobOwner[d] # None /\ d \notin ReferencedIn(vs)}

\* orphaned_query: rows without versions, of the run's account if it has one.
ScopedOrphans(target, vs) ==
    {d \in Digests : /\ blobOwner[d] # None
                     /\ d \notin ReferencedIn(vs)
                     /\ target # None => blobOwner[d] = target}

\* The folder of account a after phase 3.
FolderAfterPurge(a) ==
    IF acct[a].folder.state = "quarantined"
       /\ acct[a].folder.changedAt < AccountCutoff(a)
    THEN [acct[a].folder EXCEPT !.state = "purged", !.changedAt = clock]
    ELSE acct[a].folder

\* GarbageCollector(account=target, dry_run=dry).run()
GcRun(target, dry) ==
    LET vs == VersionsAfterScopedPurge(target, dry)
        orphans == IF dry THEN {} ELSE ScopedOrphans(target, vs)
    IN /\ acct' = [a \in GcAccounts |->
                      [acct[a] EXCEPT
                          !.versions = vs[a],
                          !.files = @ \ {d \in orphans : blobOwner[d] = a},
                          !.folder = IF a \in GcAccountsOf(target) /\ ~dry
                                     THEN FolderAfterPurge(a) ELSE @]]
       /\ blobOwner' = [d \in Digests |->
                           IF d \in orphans THEN None ELSE blobOwner[d]]
       /\ lastOp' = Op("gc_run", target, IF dry THEN "dry" ELSE "run", TRUE)
       /\ UNCHANGED <<item, versions, blobRow, blobFile, current, archive,
                      syncCursor, lastSyncAt, session, eng, gc, clock, hist>>
       /\ UNCHANGED <<dispVars, extButScope>>

ScopeNext ==
    \/ \E a \in GcAccounts, d \in Digests : AccountCapture(a, d)
    \/ AccountFolderSeen("a2")
    \/ AccountSweep("a2")
    \/ \E target \in GcAccounts \cup {None}, dry \in BOOLEAN :
          GcRun(target, dry)
    \/ clock < ScopeTime /\ Tick

ScopeSpec == Init /\ [][ScopeNext]_vars

\* The versions of vs that the policy of account a keeps.
KeptFor(a, vs) ==
    {k \in 1..Len(vs) : \/ Len(vs) - k < PolicyOf(a).keepLastN
                        \/ vs[k].at >= clock - PolicyOf(a).keepDays}

\* C21: a GC run built for one account leaves the FileVersions, the blob
\* files, the archive file and the BackupItems of every other account and
\* the BackupBlob rows of every other account as they were; a run built for
\* no account leaves of each account's versions exactly those that the
\* account's own policy keeps, and purges a quarantined folder exactly when
\* it is older than the account's own keepDays.
C21_GcAccountScoping ==
    [][lastOp'.kind = "gc_run" =>
          /\ \A b \in GcAccounts :
                (lastOp'.id # None /\ b # lastOp'.id) =>
                   /\ acct'[b] = acct[b]
                   /\ \A d \in Digests :
                         blobOwner[d] = b => blobOwner'[d] = b
          /\ (lastOp'.id = None /\ lastOp'.out = "run") =>
                \A a \in GcAccounts :
                   /\ Len(acct'[a].versions)
                         = Cardinality(KeptFor(a, acct[a].versions))
                   /\ \A k \in KeptFor(a, acct[a].versions) :
                         acct'[a].versions[
                             Cardinality({j \in KeptFor(a, acct[a].versions) :
                                             j <= k})] = acct[a].versions[k]
                   /\ (acct'[a].folder.state = "purged"
                       /\ acct[a].folder.state # "purged")
                         <=> (/\ acct[a].folder.state = "quarantined"
                              /\ acct[a].folder.changedAt
                                    < clock - PolicyOf(a).keepDays)]_vars

\* A run for account a1 purged a version of a1 while account a2 held two
\* versions of which a1's policy would purge one, a quarantined folder
\* older than a1's cutoff, and a BackupBlob row without any FileVersion.
C21_ScopedRunBesideOther ==
    /\ lastOp.kind = "gc_run" /\ lastOp.id = "a1" /\ lastOp.out = "run"
    /\ Len(acct["a1"].versions) = 1
    /\ Len(acct["a2"].versions) = MaxAccountVersions
    /\ acct["a2"].versions[1].at < clock
    /\ acct["a2"].folder.state = "quarantined"
    /\ acct["a2"].folder.changedAt < clock
    /\ \E d \in acct["a1"].files :
          /\ blobOwner[d] = "a2"
          /\ d \notin ReferencedIn([a \in GcAccounts |-> acct[a].versions])

\* C39: every FileVersion of an account references a BackupBlob row of
\* that account, and the blob's file is in that account's store.
C39_BlobOwnership ==
    \A a \in GcAccounts : \A k \in 1..Len(acct[a].versions) :
        /\ blobOwner[acct[a].versions[k].blob] = a
        /\ acct[a].versions[k].blob \in acct[a].files

(***************************************************************************)
(* WriteSpec: AccountStorage.write_blob.  Two callers write into the store *)
(* of one account, each call going step by step through the temp file, the *)
(* digest, the check against the expected digest and the move to the       *)
(* canonical path; a write to the temp file may fail.                      *)
(***************************************************************************)
\* blob_path.exists() of a call that has computed its digest.
CanonicalFile(w) == blobPath[writer[w].digest]

\* write_blob(data, expected): the call starts with its locals.
WriteBlobCall(w, data, expected) ==
    /\ writer[w].pc \in {"idle", "done", "failed"}
    /\ writer' = [writer EXCEPT ![w] = [pc |-> "open", data |-> data,
                                        expected |-> expected, hashed |-> <<>>,
                                        digest |-> 0, found |-> FALSE,
                                        result |-> None]]
    /\ UNCHANGED <<tmpFile, blobPath>>
    /\ UNCHANGED <<coreVars, dispVars, extButWrite>>

\* open(tmp_path, "wb"): the temp file exists and is empty.
OpenTmp(w) ==
    /\ writer[w].pc = "open"
    /\ tmpFile' = [tmpFile EXCEPT ![w] = File(<<>>)]
    /\ writer' = [writer EXCEPT ![w].pc = "write"]
    /\ UNCHANGED blobPath
    /\ UNCHANGED <<coreVars, dispVars, extButWrite>>

\* hasher.update(chunk); f.write(chunk), and after the last chunk the flush,
\* the fsync and digest = "sha256:" + hasher.hexdigest().
WriteChunk(w) ==
    /\ writer[w].pc = "write"
    /\ LET n == Len(writer[w].hashed) + 1
           hashed == Append(writer[w].hashed, writer[w].data[n])
       IN /\ tmpFile' = [tmpFile EXCEPT ![w].bytes = Append(@, writer[w].data[n])]
          /\ writer' = [writer EXCEPT
                           ![w].hashed = hashed,
                           ![w].pc = IF n = Len(writer[w].data) THEN "verify"
                                     ELSE "write",
                           ![w].digest = IF n = Len(writer[w].data)
                                         THEN Sha256(hashed) ELSE 0]
    /\ UNCHANGED blobPath
    /\ UNCHANGED <<coreVars, dispVars, extButWrite>>

\* except Exception: the temp file is unlinked if it exists, and the
\* exception goes to the caller.
Raised(w, error) ==
    /\ tmpFile' = [tmpFile EXCEPT ![w] = NoFile]
    /\ writer' = [writer EXCEPT ![w].pc = "failed", ![w].result = error]

\* The open, a write or the fsync raises OSError.
WriteFails(w) ==
    /\ writer[w].pc \in {"open", "write"}
    /\ Raised(w, "os_error")
    /\ UNCHANGED blobPath
    /\ UNCHANGED <<coreVars, dispVars, extButWrite>>

\* A check that lets every digest through.
DigestAccepted(w) == FALSE

\* expected_digest and digest != expected_digest
DigestMismatch(w) ==
    writer[w].expected # 0 /\ writer[w].digest # writer[w].expected

\* The verification, and blob_path.exists() of the call that passes it.
Verify(w) ==
    /\ writer[w].pc = "verify"
    /\ IF DigestMismatch(w)
       THEN Raised(w, "digest_error")
       ELSE /\ writer' = [writer EXCEPT ![w].pc = "move",
                                        ![w].found = CanonicalFile(w).exists]
            /\ UNCHANGED tmpFile
    /\ UNCHANGED blobPath
    /\ UNCHANGED <<coreVars, dispVars, extButWrite>>

\* A rename that refuses to replace an existing file.
RenameRefusesExisting(target) == ~target.exists

\* tmp_path.rename(blob_path) on POSIX: an existing file is replaced.
RenameSucceeds(target) == TRUE

\* The move to the final location: the rename and the chmod when
\* blob_path did not exist, the unlink of the temp file when it did.
Move(w) ==
    /\ writer[w].pc = "move"
    /\ IF writer[w].found
       THEN /\ tmpFile' = [tmpFile EXCEPT ![w] = NoFile]
            /\ writer' = [writer EXCEPT ![w].pc = "done",
                                        ![w].result = "returned"]
            /\ UNCHANGED blobPath
       ELSE IF RenameSucceeds(CanonicalFile(w))
            THEN /\ blobPath' = [blobPath EXCEPT ![writer[w].digest] =
                                                    tmpFile[w]]
                 /\ tmpFile' = [tmpFile EXCEPT ![w] = NoFile]
                 /\ writer' = [writer EXCEPT ![w].pc = "done",
                                             ![w].result = "returned"]
            ELSE /\ Raised(w, "os_error_rename")
                 /\ UNCHANGED blobPath
    /\ UNCHANGED <<coreVars, dispVars, extButWrite>>

\* The expected digests a caller passes: none, or the digest of a content.
ExpectedDigests == {0} \cup {Sha256(c) : c \in WriteContents}

WriteNext ==
    \/ \E w \in Writers, data \in WriteContents, expected \in ExpectedDigests :
          WriteBlobCall(w, data, expected)
    \/ \E w \in Writers : OpenTmp(w)
    \/ \E w \in Writers : WriteChunk(w)
    \/ \E w \in Writers : WriteFails(w)
    \/ \E w \in Writers : Verify(w)
    \/ \E w \in Writers : Move(w)

WriteSpec == Init /\ [][WriteNext]_vars

\* The call of w was given an expected digest that its content does not have.
Mismatched(w) ==
    /\ writer[w].pc # "idle"
    /\ writer[w].expected # 0
    /\ writer[w].expected # Sha256(writer[w].data)

\* C22: at every moment a file at the canonical path of digest d holds a
\* complete content whose digest is d; a call whose content does not match
\* its expected digest never returns, changes no canonical path at any of
\* its steps, and has no temp file left once it has failed, as has any call
\* that failed.
C22_BlobWriteAtomicity ==
    /\ [](/\ \A d \in DigestSpace :
                blobPath[d].exists =>
                   /\ Sha256(blobPath[d].bytes) = d
                   /\ blobPath[d].bytes \in WriteContents
          /\ \A w \in Writers :
                /\ writer[w].pc = "failed" => ~tmpFile[w].exists
                /\ Mismatched(w) => writer[w].pc # "done"
                /\ (Mismatched(w) /\ writer[w].pc = "failed")
                      => writer[w].result = "digest_error"
                         \/ writer[w].result = "os_error")
    /\ [][\A w \in Writers :
             (writer'[w] # writer[w] /\ Mismatched(w)') =>
                blobPath' = blobPath]_vars

\* A call was rejected for its digest after its whole content had been in
\* its temp file, while the other caller's temp file holds a part of a
\* content and a blob is in place.
C22_RejectedBesidePartial ==
    /\ writer["w1"].pc = "failed" /\ writer["w1"].result = "digest_error"
    /\ writer["w2"].pc = "write"
    /\ tmpFile["w2"].exists /\ Len(tmpFile["w2"].bytes) = 1
    /\ \E d \in DigestSpace : blobPath[d].exists

\* Both calls have ended, were given the same content and no expected digest
\* that it does not have, and no write to a temp file failed.
SameContentCalls(w, v) ==
    /\ w # v
    /\ writer[w].pc \in {"done", "failed"}
    /\ writer[v].pc \in {"done", "failed"}
    /\ writer[w].data = writer[v].data
    /\ ~Mismatched(w) /\ ~Mismatched(v)
    /\ writer[w].result # "os_error" /\ writer[v].result # "os_error"

\* C23: when two calls with the same content have both ended, however
\* their steps were interleaved, both have returned the digest of the
\* content, the canonical path of that digest holds the content, and neither
\* temp file remains.
C23_ConcurrentWritersSafe ==
    \A w, v \in Writers :
        SameContentCalls(w, v) =>
           /\ writer[w].pc = "done" /\ writer[v].pc = "done"
           /\ writer[w].digest = Sha256(writer[w].data)
           /\ writer[v].digest = writer[w].digest
           /\ blobPath[writer[w].digest] = File(writer[w].data)
           /\ ~tmpFile[w].exists /\ ~tmpFile[v].exists

\* Both calls found no blob at the canonical path and both renamed their
\* temp file onto it.
C23_BothRenamed ==
    /\ SameContentCalls("w1", "w2")
    /\ ~writer["w1"].found /\ ~writer["w2"].found
    /\ writer["w1"].pc = "done" /\ writer["w2"].pc = "done"

(***************************************************************************)
(* ArchiveSpec: the trees current/ and archive/ of one account under       *)
(* materialize_to_current, move_to_archive and restore_from_archive,       *)
(* called with the paths of files.  A tree is its files and its            *)
(* directories; a call that raises leaves both trees as they were.         *)
(***************************************************************************)
\* path.parent, and the directories above a path.
Parent(p) == SubSeq(p, 1, Len(p) - 1)
Ancestors(p) == {SubSeq(p, 1, k) : k \in 1..(Len(p) - 1)}

IsFileAt(t, p) == t.files[p] # None
IsDirAt(t, p) == p \in t.dirs

\* target_path.parent.mkdir(parents=True, exist_ok=True) raises when a
\* component of the parent is a file.
MkdirRaises(t, p) == \E a \in Ancestors(p) : a \in FilePaths /\ IsFileAt(t, a)
Mkdir(t, p) == [t EXCEPT !.dirs = @ \cup Ancestors(p)]

\* A directory holds no file and no directory.
IsEmptyDir(t, dir) ==
    /\ \A q \in FilePaths : Parent(q) = dir => ~IsFileAt(t, q)
    /\ \A q \in t.dirs : Parent(q) # dir

\* _cleanup_empty_dirs_to(path, stop_at): rmdir upwards while it succeeds.
RECURSIVE CleanupEmptyDirsTo(_, _)
CleanupEmptyDirsTo(t, dir) ==
    IF dir = <<>> \/ ~IsDirAt(t, dir) \/ ~IsEmptyDir(t, dir) THEN t
    ELSE CleanupEmptyDirsTo([t EXCEPT !.dirs = @ \ {dir}], Parent(dir))

\* A move that leaves a file already at the target in place.
ExistingKept(moved, existing) == IF existing # None THEN existing ELSE moved

\* The file at the target after the unlink of an existing file and
\* shutil.move.
MovedFile(moved, existing) == moved

\* The body shared by move_to_archive and restore_from_archive: the trees
\* after the file of p has gone from src to dst.  raised is whether the call
\* raised (the parent cannot be made, or the target is a directory); moved
\* is whether it returned the new path and not None.
MoveOutcome(src, dst, p) ==
    IF ~IsFileAt(src, p)
    THEN [src |-> src, dst |-> dst, raised |-> FALSE, moved |-> FALSE]
    ELSE IF MkdirRaises(dst, p)
    THEN [src |-> src, dst |-> dst, raised |-> TRUE, moved |-> FALSE]
    ELSE IF IsDirAt(dst, p)
    THEN [src |-> src, dst |-> Mkdir(dst, p), raised |-> TRUE,
          moved |-> FALSE]
    ELSE [src |-> CleanupEmptyDirsTo([src EXCEPT !.files[p] = None],
                                     Parent(p)),
          dst |-> [Mkdir(dst, p) EXCEPT
                      !.files[p] = MovedFile(src.files[p], dst.files[p])],
          raised |-> FALSE, moved |-> TRUE]

\* materialize_to_current(digest, p) for a blob with content c.
MaterializeToCurrent(p, c) ==
    /\ ~MkdirRaises(tree.cur, p)
    /\ ~IsDirAt(tree.cur, p)
    /\ tree' = [tree EXCEPT !.cur = [Mkdir(tree.cur, p) EXCEPT !.files[p] = c]]
    /\ trip' = NoTrip
    /\ UNCHANGED <<coreVars, dispVars, extButTree>>

\* move_to_archive(p), called for a path that is no directory of current/.
MoveToArchive(p) ==
    /\ ~IsDirAt(tree.cur, p)
    /\ LET out == MoveOutcome(tree.cur, tree.arc, p)
       IN /\ tree' = [cur |-> out.src, arc |-> out.dst]
          /\ trip' = IF out.moved
                     THEN [stage |-> "archived", path |-> p,
                           before |-> tree.cur.files,
                           replaced |-> IsFileAt(tree.arc, p)]
                     ELSE NoTrip
    /\ UNCHANGED <<coreVars, dispVars, extButTree>>

\* restore_from_archive(p), called for a path that is no directory of
\* archive/.
RestoreFromArchive(p) ==
    /\ ~IsDirAt(tree.arc, p)
    /\ LET out == MoveOutcome(tree.arc, tree.cur, p)
       IN /\ tree' = [cur |-> out.dst, arc |-> out.src]
          /\ trip' = IF trip.stage = "archived" /\ trip.path = p
                     THEN [trip EXCEPT !.stage = IF out.moved THEN "restored"
                                                 ELSE "lost"]
                     ELSE NoTrip
    /\ UNCHANGED <<coreVars, dispVars, extButTree>>

ArchiveNext ==
    \/ \E p \in FilePaths, c \in FileContents : MaterializeToCurrent(p, c)
    \/ \E p \in FilePaths : MoveToArchive(p)
    \/ \E p \in FilePaths : RestoreFromArchive(p)

ArchiveSpec == Init /\ [][ArchiveNext]_vars

\* C24: when restore_from_archive(p) directly follows a move_to_archive(p)
\* that moved a file of current/, the restore moves the file back: every
\* path of current/ holds the content it held before the move, p included,
\* and archive/ has no file at p.
C24_ArchiveRoundTrip ==
    /\ trip.stage # "lost"
    /\ trip.stage = "restored" =>
          /\ tree.cur.files = trip.before
          /\ tree.cur.files[trip.path] # None
          /\ tree.arc.files[trip.path] = None

\* A round trip of d/f has ended that replaced an older file of archive/
\* and emptied and remade the directory d of current/, beside a file of
\* archive/ that stayed.
C24_RoundTripOverOlderArchive ==
    /\ trip.stage = "restored"
    /\ trip.path = <<"d", "f">>
    /\ trip.replaced
    /\ tree.cur.files[<<"d", "g">>] = None
    /\ tree.arc.files[<<"d", "g">>] # None

(***************************************************************************)
(* PathSpec: the paths of the BackupItems of one SyncRoot.  Every run      *)
(* builds a SyncEngine, whose PathBuilder loads its cache from the         *)
(* catalog; each change builds its path and then creates or updates its    *)
(* item in a transaction that commits or rolls back.  The provider has a   *)
(* folder P at the root and two files X and Y, both named n, in P.         *)
(***************************************************************************)
\* One component of a path: a sanitized name, the counter that conflict
\* resolution appended (0 for none) and the file id of the last resort.
Component(name) == [name |-> name, n |-> 0, id |-> None]

\* f"_pending_/{parent_id}"
PendingPath(parentId) == <<Component("_pending_"), Component(parentId)>>
IsPending(path) == path # NoPath /\ path[1] = Component("_pending_")

\* f"{parent_path}/{name}"
ChildPath(parentPath, name) == Append(parentPath, Component(name))

\* f"{parts[0]} ({counter}).{parts[1]}" or f"{original_path} ({counter})"
WithCounter(path, k) == [path EXCEPT ![Len(path)].n = k]

\* BackupItem.objects.filter(sync_root=..., path=path)
\*     .exclude(provider_item_id=file_id).first()
PathTaken(path, id) ==
    \E j \in PathIds : j # id /\ pathItem[j].path = path

\* _resolve_conflicts: the original path, then the counters from 1, and
\* the path with the file id when the counter passes the cap.
RECURSIVE ResolveFrom(_, _, _)
ResolveFrom(path, id, k) ==
    IF ~PathTaken(WithCounter(path, k), id) THEN WithCounter(path, k)
    ELSE IF k + 1 > ConflictCap - 1
         THEN [path EXCEPT ![Len(path)].id = id]
         ELSE ResolveFrom(path, id, k + 1)

ResolveConflicts(path, id) == ResolveFrom(path, id, 0)

\* The parent path of build_path: from the cache, from the parent's
\* BackupItem, or the placeholder.
ParentPath(parentId) ==
    IF pathCache[parentId] # NoPath THEN pathCache[parentId]
    ELSE IF pathItem[parentId].path # NoPath THEN pathItem[parentId].path
    ELSE PendingPath(parentId)

\* build_path(drive_file): the path it returns.
BuildPath(c) ==
    IF pathCache[c.id] # NoPath THEN pathCache[c.id]
    ELSE IF c.parent = "root"
    THEN ResolveConflicts(<<Component(c.name)>>, c.id)
    ELSE ResolveConflicts(ChildPath(ParentPath(c.parent), c.name), c.id)

\* build_path on an empty cache: the sanitized name under the path of the
\* first parent's BackupItem, or under the placeholder, then conflict
\* resolution against the catalog.
BuildPathFromCatalog(c) ==
    IF c.parent = "root"
    THEN ResolveConflicts(<<Component(c.name)>>, c.id)
    ELSE ResolveConflicts(
             ChildPath(IF pathItem[c.parent].path # NoPath
                       THEN pathItem[c.parent].path
                       ELSE PendingPath(c.parent), c.name), c.id)

\* The cache after build_path: the path of the file, and the path of a
\* parent that was fetched from the catalog.
CacheAfterBuild(c) ==
    [i \in PathIds |->
        IF i = c.id THEN BuildPath(c)
        ELSE IF /\ pathCache[c.id] = NoPath
                /\ i = c.parent
                /\ pathCache[i] = NoPath
             THEN pathItem[i].path
             ELSE pathCache[i]]

\* SyncEngine.__init__ and run_sync: PathBuilder._load_cache reads the
\* paths of the SyncRoot's items.
PathStartRun ==
    /\ pathEng.pc = "idle"
    /\ pathEng.run < PathRuns
    /\ pathEng' = [pc |-> "running", run |-> pathEng.run + 1,
                   left |-> PathRunChanges]
    /\ pathCache' = [i \in PathIds |-> pathItem[i].path]
    /\ pathOp' = NoPathOp
    /\ UNCHANGED pathItem
    /\ UNCHANGED <<coreVars, dispVars, extButPath>>

\* One change of the batch: the path is built, and the item is created or
\* updated with it in a transaction that commits (out = "ok") or is rolled
\* back by a later exception.
PathProcessChange(c, out) ==
    /\ pathEng.pc = "running"
    /\ pathEng.left > 0
    /\ pathCache' = CacheAfterBuild(c)
    /\ pathItem' = IF out = "ok"
                   THEN [pathItem EXCEPT ![c.id] =
                            [path |-> BuildPath(c),
                             run |-> IF BuildPath(c) = @.path THEN @.run
                                     ELSE pathEng.run]]
                   ELSE pathItem
    /\ pathEng' = [pathEng EXCEPT !.left = @ - 1]
    /\ pathOp' = [id |-> c.id, parent |-> c.parent, name |-> c.name,
                  done |-> out = "ok"]
    /\ UNCHANGED <<coreVars, dispVars, extButPath>>

\* The run ends and its engine goes.
PathEndRun ==
    /\ pathEng.pc = "running"
    /\ pathEng' = [pathEng EXCEPT !.pc = "idle", !.left = 0]
    /\ pathCache' = [i \in PathIds |-> NoPath]
    /\ pathOp' = NoPathOp
    /\ UNCHANGED pathItem
    /\ UNCHANGED <<coreVars, dispVars, extButPath>>

\* The files and the folder of the provider, as its changes carry them:
\* file X is named "n" and, after a rename upstream, "m".
PathChanges ==
    {[id |-> "P", name |-> "p", parent |-> "root"],
     [id |-> "X", name |-> "n", parent |-> "P"],
     [id |-> "X", name |-> "m", parent |-> "P"],
     [id |-> "Y", name |-> "n", parent |-> "P"]}

PathNext ==
    \/ PathStartRun
    \/ \E c \in PathChanges, out \in {"ok", "rolled_back"} :
          PathProcessChange(c, out)
    \/ PathEndRun

PathSpec == Init /\ [][PathNext]_vars

\* C25: no two BackupItems of the SyncRoot have the same path (no item of
\* this SyncRoot is PURGED).
C25_PathUniqueness ==
    \A i, j \in PathIds :
        (i # j /\ pathItem[i].path # NoPath) =>
            pathItem[i].path # pathItem[j].path

\* C26: when a sync commits a change for an item whose path was assigned
\* under _pending_/<parent> by an earlier sync, and the parent's BackupItem
\* exists, the item's path becomes the parent's path followed by the
\* item's name.
C26_PendingParentRelocation ==
    [][(/\ pathOp'.done
        /\ pathOp'.parent # "root"
        /\ IsPending(pathItem[pathOp'.id].path)
        /\ pathItem[pathOp'.id].run < pathEng.run
        /\ pathItem[pathOp'.parent].path # NoPath) =>
          /\ ~IsPending(pathItem'[pathOp'.id].path)
          /\ Parent(pathItem'[pathOp'.id].path)
                = pathItem[pathOp'.parent].path]_vars

\* C38: the path build_path returns for a change, with the cache as the
\* run has filled it, is the path it computes from the catalog with an
\* empty cache.
C38_PathCacheTransparency ==
    [][pathOp'.id # None =>
          pathCache'[pathOp'.id] =
             BuildPathFromCatalog([id |-> pathOp'.id, name |-> pathOp'.name,
                                   parent |-> pathOp'.parent])]_vars

(***************************************************************************)
(* NameSpec: PathBuilder._sanitize_name and the location of the file that  *)
(* materialize_to_current writes.  The provider names a file at the root   *)
(* of the drive with any string over NameChars; the engine sanitizes the   *)
(* name, and the sanitized name is the relative path of the file.          *)
(***************************************************************************)
\* name.replace(char, "_") for every char of INVALID_CHARS
ReplaceInvalid(name) ==
    [k \in 1..Len(name) |-> IF name[k] \in InvalidChars THEN "_" ELSE name[k]]

\* name.strip(". ")
RECURSIVE StripLeft(_)
StripLeft(name) ==
    IF name # <<>> /\ name[1] \in {".", " "} THEN StripLeft(Tail(name))
    ELSE name
RECURSIVE StripRight(_)
StripRight(name) ==
    IF name # <<>> /\ name[Len(name)] \in {".", " "}
    THEN StripRight(SubSeq(name, 1, Len(name) - 1))
    ELSE name
Strip(name) == StripRight(StripLeft(name))

\* The index of the last "." of a name, 0 if it has none: rsplit(".", 1).
LastDot(name) ==
    IF \E k \in 1..Len(name) : name[k] = "."
    THEN CHOOSE k \in 1..Len(name) :
            name[k] = "." /\ \A j \in (k + 1)..Len(name) : name[j] # "."
    ELSE 0

\* The limit of the length, which keeps a short extension.
Truncate(name) ==
    IF Len(name) <= NameLimit THEN name
    ELSE LET dot == LastDot(name)
             ext == SubSeq(name, dot + 1, Len(name))
         IN IF dot > 0 /\ Len(ext) <= ExtensionLimit
            THEN SubSeq(name, 1, IF dot - 1 < NameLimit - Len(ext) - 1
                                 THEN dot - 1 ELSE NameLimit - Len(ext) - 1)
                 \o <<".">> \o ext
            ELSE SubSeq(name, 1, NameLimit)

\* _sanitize_name(name)
SanitizeName(name) ==
    LET stripped == Strip(ReplaceInvalid(name))
    IN Truncate(IF stripped = <<>> THEN Unnamed ELSE stripped)

\* The components of a relative path: the runs of characters between the
\* separators.
RECURSIVE SplitPath(_, _)
SplitPath(path, part) ==
    IF path = <<>> THEN <<part>>
    ELSE IF path[1] = "/" THEN <<part>> \o SplitPath(Tail(path), <<>>)
    ELSE SplitPath(Tail(path), Append(part, path[1]))

\* How deep under the base a walk over the components ends, -1 once it has
\* left the base.
RECURSIVE DepthAfter(_, _)
DepthAfter(parts, depth) ==
    IF depth < 0 \/ parts = <<>> THEN depth
    ELSE IF Head(parts) \in {<<>>, <<".">>} THEN DepthAfter(Tail(parts), depth)
    ELSE IF Head(parts) = <<".", ".">> THEN DepthAfter(Tail(parts), depth - 1)
    ELSE DepthAfter(Tail(parts), depth + 1)

\* self.current_dir / relative_path designates a location under current/:
\* an absolute right operand replaces the base, and the file system
\* resolves the components.
InsideCurrent(path) ==
    /\ path # <<>>
    /\ path[1] # "/"
    /\ DepthAfter(SplitPath(path, <<>>), 0) > 0

\* The provider reports a file with this name at the root of the drive.
DriveFileNamed(name) ==
    /\ fileName' = name
    /\ safeName' = <<>>
    /\ UNCHANGED <<coreVars, dispVars, extButName>>

\* build_path for the file: its path is its sanitized name.
BuildRootPath ==
    /\ fileName # <<>>
    /\ safeName = <<>>
    /\ safeName' = SanitizeName(fileName)
    /\ UNCHANGED fileName
    /\ UNCHANGED <<coreVars, dispVars, extButName>>

\* The names of the provider: the strings of 1 to MaxNameLen characters.
ProviderNames == UNION {[1..n -> NameChars] : n \in 1..MaxNameLen}

NameNext ==
    \/ \E name \in ProviderNames : DriveFileNamed(name)
    \/ BuildRootPath

NameSpec == Init /\ [][NameNext]_vars

\* C27: the sanitized name of a file holds no path separator and is neither
\* "." nor "..", and the path built from it, joined to current/, is a
\* location inside current/.
C27_BuiltPathsSafe ==
    safeName # <<>> =>
       /\ \A k \in 1..Len(safeName) : safeName[k] # "/"
       /\ safeName # <<".">> /\ safeName # <<".", ".">>
       /\ InsideCurrent(safeName)

(***************************************************************************)
(* ReadSpec: AccountStorage.read_blob with verify, and the VerifyingReader *)
(* it returns.  The file under blobs/ holds any content, the one its name  *)
(* stands for or another; the caller reads with any sizes and closes.      *)
(***************************************************************************)
\* read_blob(digest): the file at the digest's path holds content.
ReadBlob(content, digest) ==
    /\ reader.pc = "none"
    /\ reader' = [NoReader EXCEPT !.pc = "open", !.file = content,
                                  !.expected = digest]
    /\ UNCHANGED <<coreVars, dispVars, extButRead>>

\* self._file.read(size) at position pos
FileRead(file, pos, size) ==
    IF size < 0 \/ pos + size > Len(file)
    THEN SubSeq(file, pos + 1, Len(file))
    ELSE SubSeq(file, pos + 1, pos + size)

\* VerifyingReader._verify: the digest of what was hashed is not the
\* expected one.
VerifyRaises(r) == Sha256(r.hashed) # r.expected

\* VerifyingReader.read
Read(size) ==
    /\ reader.pc = "open"
    /\ LET data == FileRead(reader.file, reader.pos, size)
       IN reader' =
             IF data # <<>>
             THEN [reader EXCEPT !.pos = @ + Len(data),
                                 !.hashed = @ \o data]
             ELSE IF ~reader.verified
                  THEN [reader EXCEPT !.verified = TRUE,
                                      !.failed = VerifyRaises(reader)]
                  ELSE reader
    /\ UNCHANGED <<coreVars, dispVars, extButRead>>

\* VerifyingReader.close: an unverified reader reads the file to its end,
\* without hashing what it reads, and verifies.
Close ==
    /\ reader.pc = "open"
    /\ reader' =
          IF ~reader.verified
          THEN [reader EXCEPT !.pc = "closed",
                              !.pos = Len(reader.file),
                              !.verified = TRUE,
                              !.failed = VerifyRaises(reader)]
          ELSE [reader EXCEPT !.pc = "closed"]
    /\ UNCHANGED <<coreVars, dispVars, extButRead>>

ReadNext ==
    \/ \E content \in ReadContents, named \in ReadContents :
          ReadBlob(content, Sha256(named))
    \/ \E size \in ReadSizes : Read(size)
    \/ Close

ReadSpec == Init /\ [][ReadNext]_vars

\* C36: a reader that has been closed has failed with a digest error if and
\* only if the content of the file does not hash to the requested digest,
\* and a reader whose read has reported the end of the file has failed by
\* then if the content does not.
C36_VerifyingReaderExact ==
    /\ reader.pc = "closed" =>
          (reader.failed <=> Sha256(reader.file) # reader.expected)
    /\ (reader.pc = "open" /\ reader.verified
           /\ reader.pos = Len(reader.file)) =>
          (reader.failed <=> Sha256(reader.file) # reader.expected)

(***************************************************************************)
(* SiblingSpec: PathBuilder._resolve_conflicts over one folder.  Items     *)
(* with the same sanitized name are registered one after another; the id   *)
(* of an item is its number in digits, and siblings holds the last         *)
(* component of each item's path.                                          *)
(***************************************************************************)
\* A last resort that left the file id out.
LastResortWithoutId(c, id) == [c EXCEPT !.id = "same"]

\* f"{original_path}_{file_id}"
LastResort(c, id) == [c EXCEPT !.id = id]

\* The least counter from lo to hi whose path no other item has (counter
\* 0 is the original path), -1 when each is taken: the counter at which
\* the loop of _resolve_conflicts returns.  The search halves the range,
\* left half first, so that its depth stays small.
RECURSIVE FirstFree(_, _, _, _)
FirstFree(taken, c, lo, hi) ==
    IF lo = hi
    THEN IF [c EXCEPT !.n = lo] \in taken THEN -1 ELSE lo
    ELSE LET mid == (lo + hi) \div 2
             left == FirstFree(taken, c, lo, mid)
         IN IF left # -1 THEN left ELSE FirstFree(taken, c, mid + 1, hi)

\* _resolve_conflicts over the paths of the other items: the path it
\* returns and the lookups it made.  The loop looks up the original path,
\* then the path with each counter from 1, and gives up for the last
\* resort when the counter has passed the cap.
ResolveAmong(taken, c, id) ==
    LET k == FirstFree(taken, c, 0, ConflictCap - 1)
    IN IF k # -1
       THEN [path |-> [c EXCEPT !.n = k], lookups |-> k + 1]
       ELSE [path |-> LastResort(c, id), lookups |-> ConflictCap]

\* build_path and the creation of the item, for the next item named "n".
RegisterSibling ==
    /\ Len(siblings) < MaxSiblings
    /\ LET id == ToString(Len(siblings) + 1)
           taken == {siblings[j].path : j \in 1..Len(siblings)}
       IN siblings' = Append(siblings,
                             ResolveAmong(taken, Component("n"), id))
    /\ UNCHANGED <<coreVars, dispVars, extButSibling>>

SiblingNext == RegisterSibling

SiblingSpec == Init /\ [][SiblingNext]_vars

\* C37: _resolve_conflicts returns after at most the cap of lookups, and
\* the paths of the items registered one after another with one name in
\* one folder are pairwise different: the first keeps the name, the next
\* ones get the counters in order, and those after the last counter get
\* their own id.
C37_ConflictResolutionBounded ==
    /\ \A j \in 1..Len(siblings) : siblings[j].lookups <= ConflictCap
    /\ Cardinality({siblings[j].path : j \in 1..Len(siblings)})
          = Len(siblings)
    /\ \A j \in 1..Len(siblings) :
          siblings[j].path =
             IF j <= ConflictCap
             THEN [name |-> "n", n |-> j - 1, id |-> None]
             ELSE [name |-> "n", n |-> 0, id |-> ToString(j)]

\* More items than the cap are registered: two of them have the path of
\* the last resort.
C37_BeyondTheCap ==
    /\ Len(siblings) = ConflictCap + 2
    /\ siblings[ConflictCap].path.n = ConflictCap - 1
    /\ siblings[ConflictCap + 1].path.id = ToString(ConflictCap + 1)
    /\ siblings[ConflictCap + 2].path.id = ToString(ConflictCap + 2)

(***************************************************************************)
(* SecretSpec: set_tokens for two accounts at once.  Each call loads the   *)
(* secrets file, sets the record of its account in the loaded dict and     *)
(* saves the dict through a temporary file; a reader loads the file at any *)
(* moment.                                                                 *)
(***************************************************************************)
\* _get_account_key
AccountKey(c) == IF c = "s1" THEN "google:s1" ELSE "google:s2"

\* _load_secrets: the records of the file at the path.
LoadSecrets(c) == secretsFile.data

\* set_tokens up to _save_secrets: the file is loaded and the record of
\* the account is set in the dict.
SetTokensLoad(c, token) ==
    /\ setter[c].pc = "idle"
    /\ setter' = [setter EXCEPT ![c] =
                     [@ EXCEPT !.pc = "loaded", !.token = token,
                               !.secrets = [LoadSecrets(c) EXCEPT
                                               ![AccountKey(c)] = token]]]
    /\ UNCHANGED <<secretsFile, seen>>
    /\ UNCHANGED <<coreVars, dispVars, extButSecret>>

\* _save_secrets: mkstemp and json.dump, which writes the temporary file
\* piece by piece.
SaveDump(c) ==
    /\ setter[c].pc \in {"loaded", "dumping"}
    /\ setter' = [setter EXCEPT ![c] =
                     IF setter[c].pc = "loaded"
                     THEN [setter[c] EXCEPT
                              !.pc = "dumping",
                              !.tmp = [data |-> setter[c].secrets,
                                       whole |-> FALSE]]
                     ELSE [setter[c] EXCEPT !.pc = "dumped",
                                            !.tmp.whole = TRUE]]
    /\ UNCHANGED <<secretsFile, seen>>
    /\ UNCHANGED <<coreVars, dispVars, extButSecret>>

\* _save_secrets: chmod and os.replace of the temporary file onto the
\* path, and set_tokens returns; when one of them fails the temporary
\* file is unlinked and SecretsFileError is raised.
SaveReplace(c, fsOk) ==
    /\ setter[c].pc = "dumped"
    /\ secretsFile' = IF fsOk THEN setter[c].tmp ELSE secretsFile
    /\ setter' = [setter EXCEPT ![c] =
                     [@ EXCEPT !.pc = IF fsOk THEN "returned" ELSE "raised",
                               !.tmp = NoSecrets]]
    /\ UNCHANGED seen
    /\ UNCHANGED <<coreVars, dispVars, extButSecret>>

\* get_tokens of a reader: _load_secrets reads the file at the path.
GetTokens ==
    /\ seen' = secretsFile
    /\ UNCHANGED <<secretsFile, setter>>
    /\ UNCHANGED <<coreVars, dispVars, extButSecret>>

SecretNext ==
    \/ \E c \in Setters, token \in Tokens : SetTokensLoad(c, token)
    \/ \E c \in Setters : SaveDump(c)
    \/ \E c \in Setters, fsOk \in BOOLEAN : SaveReplace(c, fsOk)
    \/ GetTokens

SecretSpec == Init /\ [][SecretNext]_vars

\* C40: once both set_tokens calls have returned, the secrets file holds
\* the record each of them wrote, and no reader has loaded a file that was
\* written in part.
C40_NoLostTokenUpdate ==
    /\ (\A c \in Setters : setter[c].pc = "returned") =>
          \A c \in Setters : secretsFile.data[AccountKey(c)] = setter[c].token
    /\ seen.whole
    /\ secretsFile.whole

=============================================================================
